---- MODULE Spec2Model ----
(***************************************************************************)
(* Hybrid Arrhenius + ML shelf-life predictor (src/services/shelf_life.py) *)
(* as a state machine over the history file of one ShelfLifePredictor.     *)
(*                                                                         *)
(* Number representation.  The program computes in IEEE doubles; the model *)
(* computes in fixed point with floor rounding:                            *)
(*   temperatures        whole degrees Celsius                             *)
(*   humidities          whole percent                                     *)
(*   exponents, ratios   1/FX      (FX = 10^4)                             *)
(*   confidence scores   1/SCORE   (SCORE = 10^3)                          *)
(*   alpha               1/ALPHA   (ALPHA = 10^4)                          *)
(*   ml / arrhenius pred centi-days (1/CD of a day, CD = 100)              *)
(*   hybrid prediction   alpha unit * centi-day = 1/(ALPHA*CD) of a day    *)
(* Python's None / a missing dict key is the empty sequence <<>> and a     *)
(* present value x is <<x>>.  Strings the code edits (strip, lower,        *)
(* capitalize, startswith) are sequences of one-character strings.         *)
(***************************************************************************)
EXTENDS Integers, Sequences, FiniteSets, TLC

\* ------------------------------------------------------------ units
FX == 10^4
SCORE == 10^3
ALPHA == 10^4
CD == 10^2

None == <<>>
Some(x) == <<x>>
IsNone(o) == o = <<>>
Val(o) == o[1]

Max(a, b) == IF a >= b THEN a ELSE b
Min(a, b) == IF a <= b THEN a ELSE b
Abs(a) == IF a < 0 THEN -a ELSE a

\* a * b / FX without leaving 32 bits (a >= 0, 0 <= b < 2 * 10^5)
MulFx(a, b) == (a \div FX) * b + ((a % FX) * b) \div FX

RECURSIVE SqrtSearch(_, _, _)
SqrtSearch(n, lo, hi) ==
    IF lo >= hi THEN lo
    ELSE LET mid == (lo + hi + 1) \div 2
         IN  IF mid * mid <= n THEN SqrtSearch(n, mid, hi)
             ELSE SqrtSearch(n, lo, mid - 1)

\* floor(sqrt(n)), n >= 0
ISqrt(n) == SqrtSearch(n, 0, 46340)

RECURSIVE SumSeq(_)
SumSeq(s) == IF s = <<>> THEN 0 ELSE Head(s) + SumSeq(Tail(s))

\* the last n items of s: Python's s[-n:]
LastN(s, n) == IF Len(s) <= n THEN s ELSE SubSeq(s, Len(s) - n + 1, Len(s))

\* the sum of the squares of the xs[i] - q
RECURSIVE SumSquaresAbout(_, _)
SumSquaresAbout(s, q) ==
    IF s = <<>> THEN 0 ELSE (Head(s) - q) * (Head(s) - q) + SumSquaresAbout(Tail(s), q)

\* np.std(xs) / (np.mean(xs) + 1e-6) in 1/SCORE, xs a non-empty sequence of
\* integers.  std/mean = sqrt(d) / sum(x) with d = n*sum(x^2) - sum(x)^2,
\* computed about q = sum(x) div n to stay within 32 bits:
\* d = n*sum((x-q)^2) - (sum(x) mod n)^2.  The 1e-6 only decides the case
\* sum(x) = 0, where the quotient is 0 (no spread) or larger than any score
\* (spread).  HUGE_CV stands for that quotient.
HUGE_CV == 10^6
CoefficientOfVariation(xs) ==
    LET n == Len(xs)
        total == SumSeq(xs)
        q == total \div n
        r == total % n
        about == SumSquaresAbout(xs, q)
        small == about < (2 * 10^9) \div n
        d == IF small THEN n * about - r * r ELSE 0
        root == IF ~small THEN 1000 * ISqrt(n * (about \div 100))
                ELSE IF d < 2 * 10^5 THEN ISqrt(d * 10^4)
                ELSE 100 * ISqrt(d)
    IN  IF small /\ d = 0 THEN 0
        ELSE IF total = 0 THEN HUGE_CV
        ELSE IF total > 0 THEN (root * 10) \div total
        ELSE -((root * 10) \div (-total))

\* ------------------------------------------------------------ np.exp
E_FX == 27183

RECURSIVE ExpTaylor(_, _, _, _)
ExpTaylor(r, k, term, acc) ==
    IF term = 0 THEN acc
    ELSE LET next == (term * r) \div (FX * k)
         IN  ExpTaylor(r, k + 1, next, acc + next)

RECURSIVE ExpInt(_)
ExpInt(n) == IF n = 0 THEN FX ELSE MulFx(ExpInt(n - 1), E_FX)

\* exp(x / FX) * FX for x >= 0
ExpPos(x) == MulFx(ExpInt(x \div FX), ExpTaylor(x % FX, 1, FX, FX))

\* exp(x / FX) * FX
Exp(x) == IF x >= 0 THEN ExpPos(x) ELSE (FX * FX) \div ExpPos(-x)

RECURSIVE LnSearch(_, _, _)
LnSearch(y, lo, hi) ==
    IF lo >= hi THEN lo
    ELSE LET mid == (lo + hi + 1) \div 2
         IN  IF ExpPos(mid) <= y THEN LnSearch(y, mid, hi)
             ELSE LnSearch(y, lo, mid - 1)

\* ln(y / FX) * FX for y >= FX: the inverse of ExpPos
Ln(y) == LnSearch(y, 0, 5 * FX)

\* d ** 1.2 in 1/FX for a whole number d >= 0
Pow12(d) == IF d = 0 THEN 0 ELSE ExpPos((12 * Ln(d * FX)) \div 10)

\* ------------------------------------------------------------ binary64
\* Where a claim turns on the last bit of a double, the doubles are computed
\* exactly: a positive double is m * 2^e with a 53-bit mantissa m, held as
\* LIMBS limbs of 15 bits, least significant first, and every operation
\* rounds to nearest, ties to even, as the hardware does.  The operations on
\* limbs take numbers of any number of limbs, both operands of the same.
LIMB == 2^15
LIMBS == 5
MANTISSA_BITS == 53

BigOfSmall(k) == [i \in 1..LIMBS |-> IF i = 1 THEN k ELSE 0]

\* a in n limbs, n >= Len(a)
BigPad(a, n) == [i \in 1..n |-> IF i <= Len(a) THEN a[i] ELSE 0]

\* limb i of a, 0 outside a
BigLimb(a, i) == IF i >= 1 /\ i <= Len(a) THEN a[i] ELSE 0

BigIsZero(a) == \A i \in 1..Len(a) : a[i] = 0

RECURSIVE BigAddCarry(_, _, _, _)
BigAddCarry(a, b, i, carry) ==
    IF i > Len(a) THEN <<>>
    ELSE LET t == a[i] + b[i] + carry
         IN  <<t % LIMB>> \o BigAddCarry(a, b, i + 1, t \div LIMB)

BigAdd(a, b) == BigAddCarry(a, b, 1, 0)

RECURSIVE BigMulCarry(_, _, _, _)
BigMulCarry(a, k, i, carry) ==
    IF i > Len(a) THEN <<>>
    ELSE LET t == a[i] * k + carry
         IN  <<t % LIMB>> \o BigMulCarry(a, k, i + 1, t \div LIMB)

\* a * k for 0 <= k < LIMB
BigMulSmall(a, k) == BigMulCarry(a, k, 1, 0)

RECURSIVE BigDivFrom(_, _, _, _)
BigDivFrom(a, d, i, rem) ==
    IF i = 0 THEN [q |-> <<>>, r |-> rem]
    ELSE LET t == rem * LIMB + a[i]
             rest == BigDivFrom(a, d, i - 1, t % d)
         IN  [q |-> Append(rest.q, t \div d), r |-> rest.r]

\* quotient and remainder of a by d, 0 < d <= LIMB
BigDivSmall(a, d) == BigDivFrom(a, d, Len(a), 0)

\* the number of bits of a, a > 0
BigBitLen(a) ==
    LET top == CHOOSE i \in 1..Len(a) : a[i] # 0 /\ \A j \in (i + 1)..Len(a) : a[j] = 0
        bits == CHOOSE b \in 1..15 : 2^(b - 1) <= a[top] /\ a[top] < 2^b
    IN  15 * (top - 1) + bits

\* bit n of a, bit 0 the lowest
BigBit(a, n) == (a[(n \div 15) + 1] \div 2^(n % 15)) % 2

\* a shifted left by s bits, the bits beyond the last limb dropped
BigShl(a, s) ==
    [i \in 1..Len(a) |->
        (BigLimb(a, i - (s \div 15)) % 2^(15 - (s % 15))) * 2^(s % 15)
        + BigLimb(a, i - (s \div 15) - 1) \div 2^(15 - (s % 15))]

\* a shifted right by s bits, s >= 0, with the last bit shifted out (guard)
\* and whether anything below it was non-zero (sticky)
BigShr(a, s, sticky) ==
    [q |-> [i \in 1..Len(a) |->
               BigLimb(a, i + (s \div 15)) \div 2^(s % 15)
               + (BigLimb(a, i + (s \div 15) + 1) % 2^(s % 15)) * 2^(15 - (s % 15))],
     guard |-> s > 0 /\ BigBit(a, s - 1) = 1,
     sticky |-> \/ sticky
                \/ \E i \in 1..((s - 1) \div 15) : a[i] # 0
                \/ (s > 1 /\ a[((s - 1) \div 15) + 1] % 2^((s - 1) % 15) # 0)]

\* a (with sticky saying that the exact value lies above a) rounded to a
\* mantissa of 53 bits: the mantissa and the number of bits dropped
RoundToMantissa(a, sticky) ==
    LET s == Max(0, BigBitLen(a) - MANTISSA_BITS)
        sh == BigShr(a, s, sticky)
        up == sh.guard /\ (sh.sticky \/ sh.q[1] % 2 = 1)
        q1 == IF up THEN BigAdd(sh.q, BigPad(<<1>>, Len(a))) ELSE sh.q
    IN  IF BigBitLen(q1) > MANTISSA_BITS
        THEN [m |-> BigDivSmall(q1, 2).q, shift |-> s + 1]
        ELSE [m |-> q1, shift |-> s]

\* the double nearest to a / b, for whole numbers 0 < a < LIMB, 0 < b < LIMB
\* with a / b >= 1/64: what float("5.4") is for a = 54, b = 10
FloatOfRatio(a, b) ==
    LET d == BigDivSmall([i \in 1..LIMBS |-> IF i = LIMBS THEN a ELSE 0], b)
        r == RoundToMantissa(d.q, d.r # 0)
    IN  [m |-> r.m, e |-> r.shift - 15 * (LIMBS - 1)]

\* f + g in binary64, f and g positive with exponents at most 14 apart
FloatAdd(f, g) ==
    LET e0 == Min(f.e, g.e)
        sum == BigAdd(BigMulSmall(f.m, 2^(f.e - e0)), BigMulSmall(g.m, 2^(g.e - e0)))
        r == RoundToMantissa(sum, FALSE)
    IN  [m |-> r.m, e |-> e0 + r.shift]

\* f / n in binary64, f positive, n a whole number 0 < n < LIMB.  The
\* mantissa is divided with 15 more bits; the quotient has 53 bits or more.
\* With 54 or more, the bits beyond 53 and the remainder decide the rounding;
\* with 53 the remainder alone does: up when it is more than half of n, or
\* half of n with an odd quotient.
FloatDivSmall(f, n) ==
    LET d == BigDivSmall([i \in 1..LIMBS |-> IF i = 1 THEN 0 ELSE f.m[i - 1]], n)
        r == RoundToMantissa(d.q, d.r # 0)
        up == 2 * d.r > n \/ (2 * d.r = n /\ d.q[1] % 2 = 1)
        q1 == IF up THEN BigAdd(d.q, BigOfSmall(1)) ELSE d.q
    IN  IF BigBitLen(d.q) > MANTISSA_BITS
        THEN [m |-> r.m, e |-> f.e - 15 + r.shift]
        ELSE IF BigBitLen(q1) > MANTISSA_BITS
        THEN [m |-> BigDivSmall(q1, 2).q, e |-> f.e - 14]
        ELSE [m |-> q1, e |-> f.e - 15]

\* Quantities of the marketplace are doubles between 1/128 and 128, held
\* exactly as whole multiples of 2^-60 in LIMBS limbs.
RECURSIVE BigSubBorrow(_, _, _, _)
BigSubBorrow(a, b, i, borrow) ==
    IF i > Len(a) THEN <<>>
    ELSE LET t == a[i] - b[i] - borrow
         IN  <<t % LIMB>> \o BigSubBorrow(a, b, i + 1, IF t < 0 THEN 1 ELSE 0)

\* a < b
BigLess(a, b) ==
    \E i \in 1..Len(a) : a[i] < b[i] /\ \A j \in (i + 1)..Len(a) : a[j] = b[j]

\* the exact value a rounded to the nearest double
DoubleRound(a) ==
    IF a = BigOfSmall(0) THEN a
    ELSE LET r == RoundToMantissa(a, FALSE)
         IN  BigMulSmall(r.m, 2^r.shift)

\* float("0.1"), float("0.2"), ...: the double nearest to k / 10, 0 < k < 1280
DoubleOfTenths(k) ==
    LET f == FloatOfRatio(k, 10)
    IN  BigMulSmall(f.m, 2^(f.e + 60))

\* x + y and x - y (x >= y) as the hardware computes them
DoubleAdd(x, y) == DoubleRound(BigAdd(x, y))
DoubleSub(x, y) == DoubleRound(BigSubBorrow(x, y, 1, 0))

\* A double of either sign, where the code adds, subtracts and multiplies
\* them, is [neg, mag]: mag the magnitude as a whole number of 2^-UNIT_BITS in
\* WIDE limbs, zero never negative.  Every double of magnitude 2^-55 or more
\* is such a number; the sums here stay below 2^57 and the factors below 2.
WIDE == 11
UNIT_BITS == 107

WideZero == [neg |-> FALSE, mag |-> [i \in 1..WIDE |-> 0]]

\* the double n * 2^-e for a whole number n, -LIMB < n < LIMB
WideOfBinary(n, e) ==
    [neg |-> n < 0,
     mag |-> [i \in 1..WIDE |->
                 IF i = ((UNIT_BITS - e) \div 15) + 1
                 THEN (Abs(n) * 2^((UNIT_BITS - e) % 15)) % LIMB
                 ELSE IF i = ((UNIT_BITS - e) \div 15) + 2
                 THEN (Abs(n) * 2^((UNIT_BITS - e) % 15)) \div LIMB
                 ELSE 0]]

\* float(n) for a whole number n, -LIMB < n < LIMB
WideOfWhole(n) == WideOfBinary(n, 0)

\* is x a whole number?
WideIsWhole(x) ==
    LET sh == BigShr(x.mag, UNIT_BITS, FALSE)
    IN  ~sh.guard /\ ~sh.sticky

\* the literal a/b (273.15 is 27315/100): the double nearest to it
WideOfRatio(a, b) ==
    LET f == FloatOfRatio(a, b)
    IN  [neg |-> FALSE, mag |-> BigShl(BigPad(f.m, WIDE), f.e + UNIT_BITS)]

\* -x
WideNeg(x) == IF BigIsZero(x.mag) THEN x ELSE [x EXCEPT !.neg = ~x.neg]

\* x < y
WideLess(x, y) ==
    IF x.neg # y.neg THEN x.neg
    ELSE IF x.neg THEN BigLess(y.mag, x.mag)
    ELSE BigLess(x.mag, y.mag)

\* the exact sum of x and y
WideSum(x, y) ==
    IF x.neg = y.neg THEN [neg |-> x.neg, mag |-> BigAdd(x.mag, y.mag)]
    ELSE IF x.mag = y.mag THEN WideZero
    ELSE IF BigLess(x.mag, y.mag)
    THEN [neg |-> y.neg, mag |-> BigSubBorrow(y.mag, x.mag, 1, 0)]
    ELSE [neg |-> x.neg, mag |-> BigSubBorrow(x.mag, y.mag, 1, 0)]

\* the exact value x rounded to the nearest double
WideRound(x) ==
    IF BigIsZero(x.mag) THEN x
    ELSE LET r == RoundToMantissa(x.mag, FALSE)
         IN  [neg |-> x.neg, mag |-> BigShl(r.m, r.shift)]

\* x + y and x - y as the hardware computes them
WideAdd(x, y) == WideRound(WideSum(x, y))
WideSub(x, y) == WideRound(WideSum(x, WideNeg(y)))

\* the exact product of a and b, limb by limb of b
RECURSIVE BigMulFrom(_, _, _)
BigMulFrom(a, b, j) ==
    IF j > Len(b) THEN [i \in 1..Len(a) |-> 0]
    ELSE IF b[j] = 0 THEN BigMulFrom(a, b, j + 1)
    ELSE BigAdd(BigShl(BigMulSmall(a, b[j]), 15 * (j - 1)), BigMulFrom(a, b, j + 1))

BigMul(a, b) == BigMulFrom(a, b, 1)

\* x * y as the hardware computes it, the product zero or of magnitude 2^-55
\* or more: y is its mantissa f.m times 2^(f.shift - UNIT_BITS)
WideMul(x, y) ==
    IF BigIsZero(x.mag) \/ BigIsZero(y.mag) THEN WideZero
    ELSE LET f == RoundToMantissa(y.mag, FALSE)
             r == RoundToMantissa(BigMul(x.mag, f.m), FALSE)
         IN  [neg |-> x.neg # y.neg,
              mag |-> BigShl(r.m, r.shift + f.shift - UNIT_BITS)]

\* max(x, y) and min(x, y) of Python: the first argument unless the second
\* is greater, or smaller
WideMax(x, y) == IF WideLess(x, y) THEN y ELSE x
WideMin(x, y) == IF WideLess(y, x) THEN y ELSE x

\* ------------------------------------------------------------ strings
\* the characters str.strip() removes (those str.isspace() accepts); a
\* character of a text is one element of a sequence, and a character that
\* has no escape here is written as its Python escape
WHITESPACE ==
    {"\t", "\n", "\\x0b", "\f", "\r", "\\x1c", "\\x1d", "\\x1e", "\\x1f", " ",
     "\\x85", "\\xa0", "\\u1680", "\\u2000", "\\u2001", "\\u2002", "\\u2003",
     "\\u2004", "\\u2005", "\\u2006", "\\u2007", "\\u2008", "\\u2009", "\\u200a",
     "\\u2028", "\\u2029", "\\u202f", "\\u205f", "\\u3000"}

\* ASCII letters
UPPER == <<"A","B","C","D","E","F","G","H","I","J","K","L","M",
           "N","O","P","Q","R","S","T","U","V","W","X","Y","Z">>
LOWER == <<"a","b","c","d","e","f","g","h","i","j","k","l","m",
           "n","o","p","q","r","s","t","u","v","w","x","y","z">>
IndexIn(c, letters) == CHOOSE i \in 1..Len(letters) : letters[i] = c
IsUpper(c) == \E i \in 1..Len(UPPER) : UPPER[i] = c
IsLower(c) == \E i \in 1..Len(LOWER) : LOWER[i] = c

\* the printable ASCII characters from code point 0x20 on; the place of the
\* one that cannot be written in a string here, 0x60, is taken by a space
ASCII == " !\"#$%&'()*+,-./0123456789:;<=>?@ABCDEFGHIJKLMNOPQRSTUVWXYZ[\\]^_ abcdefghijklmnopqrstuvwxyz{|}~"
HEX == "0123456789abcdef"
HexDigit(d) == (CHOOSE i \in 1..16 : SubSeq(HEX, i, i) = d) - 1

\* A character written as a Python escape (\xhh, \uhhhh, \Uhhhhhhhh) has more
\* than one letter; its code point (at most 10ffff), as six hex digits
IsEscape(c) == Len(c) > 1
SixDigits(digits) ==
    IF Len(digits) = 2 THEN "0000" \o digits
    ELSE IF Len(digits) = 4 THEN "00" \o digits
    ELSE SubSeq(digits, 3, 8)
CodePoint(c) == SixDigits(SubSeq(c, 3, Len(c)))
Block(c) == SubSeq(CodePoint(c), 1, 4)
Low(c) == SubSeq(CodePoint(c), 5, 6)

\* the character of a code point given as five hex digits, n being the
\* number its last two digits stand for
CharOfLow(h, n) ==
    IF SubSeq(h, 1, 3) = "000" /\ n >= 32 /\ n <= 126 /\ n # 96
    THEN SubSeq(ASCII, n - 31, n - 31)
    ELSE IF h = "00009" THEN "\t"
    ELSE IF h = "0000a" THEN "\n"
    ELSE IF h = "0000c" THEN "\f"
    ELSE IF h = "0000d" THEN "\r"
    ELSE IF SubSeq(h, 1, 3) = "000" THEN "\\x" \o SubSeq(h, 4, 5)
    ELSE IF SubSeq(h, 1, 1) = "0" THEN "\\u" \o SubSeq(h, 2, 5)
    ELSE "\\U000" \o h
CharOf(h) == CharOfLow(h, 16 * HexDigit(SubSeq(h, 4, 4)) + HexDigit(SubSeq(h, 5, 5)))

\* str.lower() and str.capitalize() follow the case tables of the interpreter
\* (Unicode 14.0), given here by blocks of 256 code points: block is the
\* first four of the six hex digits of a code point.  The ASCII letters are
\* in UPPER and LOWER.
\* LOWERCASE: the characters of the block that lower() changes; an entry is
\* the last two hex digits of the character and the up to three code points
\* it becomes (00000: none).  The capital sigma is left to FinalSigma.
LOWERCASE(block) ==
    CASE block = "0000" ->
         "c0000e00000000000 c1000e10000000000 c2000e20000000000 c3000e30000000000 c4000e40000000000 c5000e50000000000 c6000e60000000000 c7000e70000000000 c8000e80000000000 c9000e90000000000 ca000ea0000000000 cb000eb0000000000 cc000ec0000000000 cd000ed0000000000 ce000ee0000000000 cf000ef0000000000 d0000f00000000000 d1000f10000000000 d2000f20000000000 d3000f30000000000 d4000f40000000000 d5000f50000000000 d6000f60000000000 d8000f80000000000 d9000f90000000000 da000fa0000000000 db000fb0000000000 dc000fc0000000000 dd000fd0000000000 de000fe0000000000 "
      [] block = "0001" ->
         "00001010000000000 02001030000000000 04001050000000000 06001070000000000 08001090000000000 0a0010b0000000000 0c0010d0000000000 0e0010f0000000000 10001110000000000 12001130000000000 14001150000000000 16001170000000000 18001190000000000 1a0011b0000000000 1c0011d0000000000 1e0011f0000000000 20001210000000000 22001230000000000 24001250000000000 26001270000000000 28001290000000000 2a0012b0000000000 2c0012d0000000000 2e0012f0000000000 30000690030700000 32001330000000000 34001350000000000 36001370000000000 390013a0000000000 3b0013c0000000000 3d0013e0000000000 3f001400000000000 41001420000000000 43001440000000000 45001460000000000 47001480000000000 4a0014b0000000000 4c0014d0000000000 4e0014f0000000000 50001510000000000 52001530000000000 54001550000000000 56001570000000000 58001590000000000 5a0015b0000000000 5c0015d0000000000 5e0015f0000000000 60001610000000000 62001630000000000 64001650000000000 66001670000000000 68001690000000000 6a0016b0000000000 6c0016d0000000000 6e0016f0000000000 70001710000000000 72001730000000000 74001750000000000 76001770000000000 78000ff0000000000 790017a0000000000 7b0017c0000000000 7d0017e0000000000 81002530000000000 82001830000000000 84001850000000000 86002540000000000 87001880000000000 89002560000000000 8a002570000000000 8b0018c0000000000 8e001dd0000000000 8f002590000000000 900025b0000000000 91001920000000000 93002600000000000 94002630000000000 96002690000000000 97002680000000000 98001990000000000 9c0026f0000000000 9d002720000000000 9f002750000000000 a0001a10000000000 a2001a30000000000 a4001a50000000000 a6002800000000000 a7001a80000000000 a9002830000000000 ac001ad0000000000 ae002880000000000 af001b00000000000 b10028a0000000000 b20028b0000000000 b3001b40000000000 b5001b60000000000 b7002920000000000 b8001b90000000000 bc001bd0000000000 c4001c60000000000 c5001c60000000000 c7001c90000000000 c8001c90000000000 ca001cc0000000000 cb001cc0000000000 cd001ce0000000000 cf001d00000000000 d1001d20000000000 d3001d40000000000 d5001d60000000000 d7001d80000000000 d9001da0000000000 db001dc0000000000 de001df0000000000 e0001e10000000000 e2001e30000000000 e4001e50000000000 e6001e70000000000 e8001e90000000000 ea001eb0000000000 ec001ed0000000000 ee001ef0000000000 f1001f30000000000 f2001f30000000000 f4001f50000000000 f6001950000000000 f7001bf0000000000 f8001f90000000000 fa001fb0000000000 fc001fd0000000000 fe001ff0000000000 "
      [] block = "0002" ->
         "00002010000000000 02002030000000000 04002050000000000 06002070000000000 08002090000000000 0a0020b0000000000 0c0020d0000000000 0e0020f0000000000 10002110000000000 12002130000000000 14002150000000000 16002170000000000 18002190000000000 1a0021b0000000000 1c0021d0000000000 1e0021f0000000000 200019e0000000000 22002230000000000 24002250000000000 26002270000000000 28002290000000000 2a0022b0000000000 2c0022d0000000000 2e0022f0000000000 30002310000000000 32002330000000000 3a02c650000000000 3b0023c0000000000 3d0019a0000000000 3e02c660000000000 41002420000000000 43001800000000000 44002890000000000 450028c0000000000 46002470000000000 48002490000000000 4a0024b0000000000 4c0024d0000000000 4e0024f0000000000 "
      [] block = "0003" ->
         "70003710000000000 72003730000000000 76003770000000000 7f003f30000000000 86003ac0000000000 88003ad0000000000 89003ae0000000000 8a003af0000000000 8c003cc0000000000 8e003cd0000000000 8f003ce0000000000 91003b10000000000 92003b20000000000 93003b30000000000 94003b40000000000 95003b50000000000 96003b60000000000 97003b70000000000 98003b80000000000 99003b90000000000 9a003ba0000000000 9b003bb0000000000 9c003bc0000000000 9d003bd0000000000 9e003be0000000000 9f003bf0000000000 a0003c00000000000 a1003c10000000000 a4003c40000000000 a5003c50000000000 a6003c60000000000 a7003c70000000000 a8003c80000000000 a9003c90000000000 aa003ca0000000000 ab003cb0000000000 cf003d70000000000 d8003d90000000000 da003db0000000000 dc003dd0000000000 de003df0000000000 e0003e10000000000 e2003e30000000000 e4003e50000000000 e6003e70000000000 e8003e90000000000 ea003eb0000000000 ec003ed0000000000 ee003ef0000000000 f4003b80000000000 f7003f80000000000 f9003f20000000000 fa003fb0000000000 fd0037b0000000000 fe0037c0000000000 ff0037d0000000000 "
      [] block = "0004" ->
         "00004500000000000 01004510000000000 02004520000000000 03004530000000000 04004540000000000 05004550000000000 06004560000000000 07004570000000000 08004580000000000 09004590000000000 0a0045a0000000000 0b0045b0000000000 0c0045c0000000000 0d0045d0000000000 0e0045e0000000000 0f0045f0000000000 10004300000000000 11004310000000000 12004320000000000 13004330000000000 14004340000000000 15004350000000000 16004360000000000 17004370000000000 18004380000000000 19004390000000000 1a0043a0000000000 1b0043b0000000000 1c0043c0000000000 1d0043d0000000000 1e0043e0000000000 1f0043f0000000000 20004400000000000 21004410000000000 22004420000000000 23004430000000000 24004440000000000 25004450000000000 26004460000000000 27004470000000000 28004480000000000 29004490000000000 2a0044a0000000000 2b0044b0000000000 2c0044c0000000000 2d0044d0000000000 2e0044e0000000000 2f0044f0000000000 60004610000000000 62004630000000000 64004650000000000 66004670000000000 68004690000000000 6a0046b0000000000 6c0046d0000000000 6e0046f0000000000 70004710000000000 72004730000000000 74004750000000000 76004770000000000 78004790000000000 7a0047b0000000000 7c0047d0000000000 7e0047f0000000000 80004810000000000 8a0048b0000000000 8c0048d0000000000 8e0048f0000000000 90004910000000000 92004930000000000 94004950000000000 96004970000000000 98004990000000000 9a0049b0000000000 9c0049d0000000000 9e0049f0000000000 a0004a10000000000 a2004a30000000000 a4004a50000000000 a6004a70000000000 a8004a90000000000 aa004ab0000000000 ac004ad0000000000 ae004af0000000000 b0004b10000000000 b2004b30000000000 b4004b50000000000 b6004b70000000000 b8004b90000000000 ba004bb0000000000 bc004bd0000000000 be004bf0000000000 c0004cf0000000000 c1004c20000000000 c3004c40000000000 c5004c60000000000 c7004c80000000000 c9004ca0000000000 cb004cc0000000000 cd004ce0000000000 d0004d10000000000 d2004d30000000000 d4004d50000000000 d6004d70000000000 d8004d90000000000 da004db0000000000 dc004dd0000000000 de004df0000000000 e0004e10000000000 e2004e30000000000 e4004e50000000000 e6004e70000000000 e8004e90000000000 ea004eb0000000000 ec004ed0000000000 ee004ef0000000000 f0004f10000000000 f2004f30000000000 f4004f50000000000 f6004f70000000000 f8004f90000000000 fa004fb0000000000 fc004fd0000000000 fe004ff0000000000 "
      [] block = "0005" ->
         "00005010000000000 02005030000000000 04005050000000000 06005070000000000 08005090000000000 0a0050b0000000000 0c0050d0000000000 0e0050f0000000000 10005110000000000 12005130000000000 14005150000000000 16005170000000000 18005190000000000 1a0051b0000000000 1c0051d0000000000 1e0051f0000000000 20005210000000000 22005230000000000 24005250000000000 26005270000000000 28005290000000000 2a0052b0000000000 2c0052d0000000000 2e0052f0000000000 31005610000000000 32005620000000000 33005630000000000 34005640000000000 35005650000000000 36005660000000000 37005670000000000 38005680000000000 39005690000000000 3a0056a0000000000 3b0056b0000000000 3c0056c0000000000 3d0056d0000000000 3e0056e0000000000 3f0056f0000000000 40005700000000000 41005710000000000 42005720000000000 43005730000000000 44005740000000000 45005750000000000 46005760000000000 47005770000000000 48005780000000000 49005790000000000 4a0057a0000000000 4b0057b0000000000 4c0057c0000000000 4d0057d0000000000 4e0057e0000000000 4f0057f0000000000 50005800000000000 51005810000000000 52005820000000000 53005830000000000 54005840000000000 55005850000000000 56005860000000000 "
      [] block = "0010" ->
         "a002d000000000000 a102d010000000000 a202d020000000000 a302d030000000000 a402d040000000000 a502d050000000000 a602d060000000000 a702d070000000000 a802d080000000000 a902d090000000000 aa02d0a0000000000 ab02d0b0000000000 ac02d0c0000000000 ad02d0d0000000000 ae02d0e0000000000 af02d0f0000000000 b002d100000000000 b102d110000000000 b202d120000000000 b302d130000000000 b402d140000000000 b502d150000000000 b602d160000000000 b702d170000000000 b802d180000000000 b902d190000000000 ba02d1a0000000000 bb02d1b0000000000 bc02d1c0000000000 bd02d1d0000000000 be02d1e0000000000 bf02d1f0000000000 c002d200000000000 c102d210000000000 c202d220000000000 c302d230000000000 c402d240000000000 c502d250000000000 c702d270000000000 cd02d2d0000000000 "
      [] block = "0013" ->
         "a00ab700000000000 a10ab710000000000 a20ab720000000000 a30ab730000000000 a40ab740000000000 a50ab750000000000 a60ab760000000000 a70ab770000000000 a80ab780000000000 a90ab790000000000 aa0ab7a0000000000 ab0ab7b0000000000 ac0ab7c0000000000 ad0ab7d0000000000 ae0ab7e0000000000 af0ab7f0000000000 b00ab800000000000 b10ab810000000000 b20ab820000000000 b30ab830000000000 b40ab840000000000 b50ab850000000000 b60ab860000000000 b70ab870000000000 b80ab880000000000 b90ab890000000000 ba0ab8a0000000000 bb0ab8b0000000000 bc0ab8c0000000000 bd0ab8d0000000000 be0ab8e0000000000 bf0ab8f0000000000 c00ab900000000000 c10ab910000000000 c20ab920000000000 c30ab930000000000 c40ab940000000000 c50ab950000000000 c60ab960000000000 c70ab970000000000 c80ab980000000000 c90ab990000000000 ca0ab9a0000000000 cb0ab9b0000000000 cc0ab9c0000000000 cd0ab9d0000000000 ce0ab9e0000000000 cf0ab9f0000000000 d00aba00000000000 d10aba10000000000 d20aba20000000000 d30aba30000000000 d40aba40000000000 d50aba50000000000 d60aba60000000000 d70aba70000000000 d80aba80000000000 d90aba90000000000 da0abaa0000000000 db0abab0000000000 dc0abac0000000000 dd0abad0000000000 de0abae0000000000 df0abaf0000000000 e00abb00000000000 e10abb10000000000 e20abb20000000000 e30abb30000000000 e40abb40000000000 e50abb50000000000 e60abb60000000000 e70abb70000000000 e80abb80000000000 e90abb90000000000 ea0abba0000000000 eb0abbb0000000000 ec0abbc0000000000 ed0abbd0000000000 ee0abbe0000000000 ef0abbf0000000000 f0013f80000000000 f1013f90000000000 f2013fa0000000000 f3013fb0000000000 f4013fc0000000000 f5013fd0000000000 "
      [] block = "001c" ->
         "90010d00000000000 91010d10000000000 92010d20000000000 93010d30000000000 94010d40000000000 95010d50000000000 96010d60000000000 97010d70000000000 98010d80000000000 99010d90000000000 9a010da0000000000 9b010db0000000000 9c010dc0000000000 9d010dd0000000000 9e010de0000000000 9f010df0000000000 a0010e00000000000 a1010e10000000000 a2010e20000000000 a3010e30000000000 a4010e40000000000 a5010e50000000000 a6010e60000000000 a7010e70000000000 a8010e80000000000 a9010e90000000000 aa010ea0000000000 ab010eb0000000000 ac010ec0000000000 ad010ed0000000000 ae010ee0000000000 af010ef0000000000 b0010f00000000000 b1010f10000000000 b2010f20000000000 b3010f30000000000 b4010f40000000000 b5010f50000000000 b6010f60000000000 b7010f70000000000 b8010f80000000000 b9010f90000000000 ba010fa0000000000 bd010fd0000000000 be010fe0000000000 bf010ff0000000000 "
      [] block = "001e" ->
         "0001e010000000000 0201e030000000000 0401e050000000000 0601e070000000000 0801e090000000000 0a01e0b0000000000 0c01e0d0000000000 0e01e0f0000000000 1001e110000000000 1201e130000000000 1401e150000000000 1601e170000000000 1801e190000000000 1a01e1b0000000000 1c01e1d0000000000 1e01e1f0000000000 2001e210000000000 2201e230000000000 2401e250000000000 2601e270000000000 2801e290000000000 2a01e2b0000000000 2c01e2d0000000000 2e01e2f0000000000 3001e310000000000 3201e330000000000 3401e350000000000 3601e370000000000 3801e390000000000 3a01e3b0000000000 3c01e3d0000000000 3e01e3f0000000000 4001e410000000000 4201e430000000000 4401e450000000000 4601e470000000000 4801e490000000000 4a01e4b0000000000 4c01e4d0000000000 4e01e4f0000000000 5001e510000000000 5201e530000000000 5401e550000000000 5601e570000000000 5801e590000000000 5a01e5b0000000000 5c01e5d0000000000 5e01e5f0000000000 6001e610000000000 6201e630000000000 6401e650000000000 6601e670000000000 6801e690000000000 6a01e6b0000000000 6c01e6d0000000000 6e01e6f0000000000 7001e710000000000 7201e730000000000 7401e750000000000 7601e770000000000 7801e790000000000 7a01e7b0000000000 7c01e7d0000000000 7e01e7f0000000000 8001e810000000000 8201e830000000000 8401e850000000000 8601e870000000000 8801e890000000000 8a01e8b0000000000 8c01e8d0000000000 8e01e8f0000000000 9001e910000000000 9201e930000000000 9401e950000000000 9e000df0000000000 a001ea10000000000 a201ea30000000000 a401ea50000000000 a601ea70000000000 a801ea90000000000 aa01eab0000000000 ac01ead0000000000 ae01eaf0000000000 b001eb10000000000 b201eb30000000000 b401eb50000000000 b601eb70000000000 b801eb90000000000 ba01ebb0000000000 bc01ebd0000000000 be01ebf0000000000 c001ec10000000000 c201ec30000000000 c401ec50000000000 c601ec70000000000 c801ec90000000000 ca01ecb0000000000 cc01ecd0000000000 ce01ecf0000000000 d001ed10000000000 d201ed30000000000 d401ed50000000000 d601ed70000000000 d801ed90000000000 da01edb0000000000 dc01edd0000000000 de01edf0000000000 e001ee10000000000 e201ee30000000000 e401ee50000000000 e601ee70000000000 e801ee90000000000 ea01eeb0000000000 ec01eed0000000000 ee01eef0000000000 f001ef10000000000 f201ef30000000000 f401ef50000000000 f601ef70000000000 f801ef90000000000 fa01efb0000000000 fc01efd0000000000 fe01eff0000000000 "
      [] block = "001f" ->
         "0801f000000000000 0901f010000000000 0a01f020000000000 0b01f030000000000 0c01f040000000000 0d01f050000000000 0e01f060000000000 0f01f070000000000 1801f100000000000 1901f110000000000 1a01f120000000000 1b01f130000000000 1c01f140000000000 1d01f150000000000 2801f200000000000 2901f210000000000 2a01f220000000000 2b01f230000000000 2c01f240000000000 2d01f250000000000 2e01f260000000000 2f01f270000000000 3801f300000000000 3901f310000000000 3a01f320000000000 3b01f330000000000 3c01f340000000000 3d01f350000000000 3e01f360000000000 3f01f370000000000 4801f400000000000 4901f410000000000 4a01f420000000000 4b01f430000000000 4c01f440000000000 4d01f450000000000 5901f510000000000 5b01f530000000000 5d01f550000000000 5f01f570000000000 6801f600000000000 6901f610000000000 6a01f620000000000 6b01f630000000000 6c01f640000000000 6d01f650000000000 6e01f660000000000 6f01f670000000000 8801f800000000000 8901f810000000000 8a01f820000000000 8b01f830000000000 8c01f840000000000 8d01f850000000000 8e01f860000000000 8f01f870000000000 9801f900000000000 9901f910000000000 9a01f920000000000 9b01f930000000000 9c01f940000000000 9d01f950000000000 9e01f960000000000 9f01f970000000000 a801fa00000000000 a901fa10000000000 aa01fa20000000000 ab01fa30000000000 ac01fa40000000000 ad01fa50000000000 ae01fa60000000000 af01fa70000000000 b801fb00000000000 b901fb10000000000 ba01f700000000000 bb01f710000000000 bc01fb30000000000 c801f720000000000 c901f730000000000 ca01f740000000000 cb01f750000000000 cc01fc30000000000 d801fd00000000000 d901fd10000000000 da01f760000000000 db01f770000000000 e801fe00000000000 e901fe10000000000 ea01f7a0000000000 eb01f7b0000000000 ec01fe50000000000 f801f780000000000 f901f790000000000 fa01f7c0000000000 fb01f7d0000000000 fc01ff30000000000 "
      [] block = "0021" ->
         "26003c90000000000 2a0006b0000000000 2b000e50000000000 320214e0000000000 60021700000000000 61021710000000000 62021720000000000 63021730000000000 64021740000000000 65021750000000000 66021760000000000 67021770000000000 68021780000000000 69021790000000000 6a0217a0000000000 6b0217b0000000000 6c0217c0000000000 6d0217d0000000000 6e0217e0000000000 6f0217f0000000000 83021840000000000 "
      [] block = "0024" ->
         "b6024d00000000000 b7024d10000000000 b8024d20000000000 b9024d30000000000 ba024d40000000000 bb024d50000000000 bc024d60000000000 bd024d70000000000 be024d80000000000 bf024d90000000000 c0024da0000000000 c1024db0000000000 c2024dc0000000000 c3024dd0000000000 c4024de0000000000 c5024df0000000000 c6024e00000000000 c7024e10000000000 c8024e20000000000 c9024e30000000000 ca024e40000000000 cb024e50000000000 cc024e60000000000 cd024e70000000000 ce024e80000000000 cf024e90000000000 "
      [] block = "002c" ->
         "0002c300000000000 0102c310000000000 0202c320000000000 0302c330000000000 0402c340000000000 0502c350000000000 0602c360000000000 0702c370000000000 0802c380000000000 0902c390000000000 0a02c3a0000000000 0b02c3b0000000000 0c02c3c0000000000 0d02c3d0000000000 0e02c3e0000000000 0f02c3f0000000000 1002c400000000000 1102c410000000000 1202c420000000000 1302c430000000000 1402c440000000000 1502c450000000000 1602c460000000000 1702c470000000000 1802c480000000000 1902c490000000000 1a02c4a0000000000 1b02c4b0000000000 1c02c4c0000000000 1d02c4d0000000000 1e02c4e0000000000 1f02c4f0000000000 2002c500000000000 2102c510000000000 2202c520000000000 2302c530000000000 2402c540000000000 2502c550000000000 2602c560000000000 2702c570000000000 2802c580000000000 2902c590000000000 2a02c5a0000000000 2b02c5b0000000000 2c02c5c0000000000 2d02c5d0000000000 2e02c5e0000000000 2f02c5f0000000000 6002c610000000000 620026b0000000000 6301d7d0000000000 640027d0000000000 6702c680000000000 6902c6a0000000000 6b02c6c0000000000 6d002510000000000 6e002710000000000 6f002500000000000 70002520000000000 7202c730000000000 7502c760000000000 7e0023f0000000000 7f002400000000000 8002c810000000000 8202c830000000000 8402c850000000000 8602c870000000000 8802c890000000000 8a02c8b0000000000 8c02c8d0000000000 8e02c8f0000000000 9002c910000000000 9202c930000000000 9402c950000000000 9602c970000000000 9802c990000000000 9a02c9b0000000000 9c02c9d0000000000 9e02c9f0000000000 a002ca10000000000 a202ca30000000000 a402ca50000000000 a602ca70000000000 a802ca90000000000 aa02cab0000000000 ac02cad0000000000 ae02caf0000000000 b002cb10000000000 b202cb30000000000 b402cb50000000000 b602cb70000000000 b802cb90000000000 ba02cbb0000000000 bc02cbd0000000000 be02cbf0000000000 c002cc10000000000 c202cc30000000000 c402cc50000000000 c602cc70000000000 c802cc90000000000 ca02ccb0000000000 cc02ccd0000000000 ce02ccf0000000000 d002cd10000000000 d202cd30000000000 d402cd50000000000 d602cd70000000000 d802cd90000000000 da02cdb0000000000 dc02cdd0000000000 de02cdf0000000000 e002ce10000000000 e202ce30000000000 eb02cec0000000000 ed02cee0000000000 f202cf30000000000 "
      [] block = "00a6" ->
         "400a6410000000000 420a6430000000000 440a6450000000000 460a6470000000000 480a6490000000000 4a0a64b0000000000 4c0a64d0000000000 4e0a64f0000000000 500a6510000000000 520a6530000000000 540a6550000000000 560a6570000000000 580a6590000000000 5a0a65b0000000000 5c0a65d0000000000 5e0a65f0000000000 600a6610000000000 620a6630000000000 640a6650000000000 660a6670000000000 680a6690000000000 6a0a66b0000000000 6c0a66d0000000000 800a6810000000000 820a6830000000000 840a6850000000000 860a6870000000000 880a6890000000000 8a0a68b0000000000 8c0a68d0000000000 8e0a68f0000000000 900a6910000000000 920a6930000000000 940a6950000000000 960a6970000000000 980a6990000000000 9a0a69b0000000000 "
      [] block = "00a7" ->
         "220a7230000000000 240a7250000000000 260a7270000000000 280a7290000000000 2a0a72b0000000000 2c0a72d0000000000 2e0a72f0000000000 320a7330000000000 340a7350000000000 360a7370000000000 380a7390000000000 3a0a73b0000000000 3c0a73d0000000000 3e0a73f0000000000 400a7410000000000 420a7430000000000 440a7450000000000 460a7470000000000 480a7490000000000 4a0a74b0000000000 4c0a74d0000000000 4e0a74f0000000000 500a7510000000000 520a7530000000000 540a7550000000000 560a7570000000000 580a7590000000000 5a0a75b0000000000 5c0a75d0000000000 5e0a75f0000000000 600a7610000000000 620a7630000000000 640a7650000000000 660a7670000000000 680a7690000000000 6a0a76b0000000000 6c0a76d0000000000 6e0a76f0000000000 790a77a0000000000 7b0a77c0000000000 7d01d790000000000 7e0a77f0000000000 800a7810000000000 820a7830000000000 840a7850000000000 860a7870000000000 8b0a78c0000000000 8d002650000000000 900a7910000000000 920a7930000000000 960a7970000000000 980a7990000000000 9a0a79b0000000000 9c0a79d0000000000 9e0a79f0000000000 a00a7a10000000000 a20a7a30000000000 a40a7a50000000000 a60a7a70000000000 a80a7a90000000000 aa002660000000000 ab0025c0000000000 ac002610000000000 ad0026c0000000000 ae0026a0000000000 b00029e0000000000 b1002870000000000 b20029d0000000000 b30ab530000000000 b40a7b50000000000 b60a7b70000000000 b80a7b90000000000 ba0a7bb0000000000 bc0a7bd0000000000 be0a7bf0000000000 c00a7c10000000000 c20a7c30000000000 c40a7940000000000 c5002820000000000 c601d8e0000000000 c70a7c80000000000 c90a7ca0000000000 d00a7d10000000000 d60a7d70000000000 d80a7d90000000000 f50a7f60000000000 "
      [] block = "00ff" ->
         "210ff410000000000 220ff420000000000 230ff430000000000 240ff440000000000 250ff450000000000 260ff460000000000 270ff470000000000 280ff480000000000 290ff490000000000 2a0ff4a0000000000 2b0ff4b0000000000 2c0ff4c0000000000 2d0ff4d0000000000 2e0ff4e0000000000 2f0ff4f0000000000 300ff500000000000 310ff510000000000 320ff520000000000 330ff530000000000 340ff540000000000 350ff550000000000 360ff560000000000 370ff570000000000 380ff580000000000 390ff590000000000 3a0ff5a0000000000 "
      [] block = "0104" ->
         "00104280000000000 01104290000000000 021042a0000000000 031042b0000000000 041042c0000000000 051042d0000000000 061042e0000000000 071042f0000000000 08104300000000000 09104310000000000 0a104320000000000 0b104330000000000 0c104340000000000 0d104350000000000 0e104360000000000 0f104370000000000 10104380000000000 11104390000000000 121043a0000000000 131043b0000000000 141043c0000000000 151043d0000000000 161043e0000000000 171043f0000000000 18104400000000000 19104410000000000 1a104420000000000 1b104430000000000 1c104440000000000 1d104450000000000 1e104460000000000 1f104470000000000 20104480000000000 21104490000000000 221044a0000000000 231044b0000000000 241044c0000000000 251044d0000000000 261044e0000000000 271044f0000000000 b0104d80000000000 b1104d90000000000 b2104da0000000000 b3104db0000000000 b4104dc0000000000 b5104dd0000000000 b6104de0000000000 b7104df0000000000 b8104e00000000000 b9104e10000000000 ba104e20000000000 bb104e30000000000 bc104e40000000000 bd104e50000000000 be104e60000000000 bf104e70000000000 c0104e80000000000 c1104e90000000000 c2104ea0000000000 c3104eb0000000000 c4104ec0000000000 c5104ed0000000000 c6104ee0000000000 c7104ef0000000000 c8104f00000000000 c9104f10000000000 ca104f20000000000 cb104f30000000000 cc104f40000000000 cd104f50000000000 ce104f60000000000 cf104f70000000000 d0104f80000000000 d1104f90000000000 d2104fa0000000000 d3104fb0000000000 "
      [] block = "0105" ->
         "70105970000000000 71105980000000000 72105990000000000 731059a0000000000 741059b0000000000 751059c0000000000 761059d0000000000 771059e0000000000 781059f0000000000 79105a00000000000 7a105a10000000000 7c105a30000000000 7d105a40000000000 7e105a50000000000 7f105a60000000000 80105a70000000000 81105a80000000000 82105a90000000000 83105aa0000000000 84105ab0000000000 85105ac0000000000 86105ad0000000000 87105ae0000000000 88105af0000000000 89105b00000000000 8a105b10000000000 8c105b30000000000 8d105b40000000000 8e105b50000000000 8f105b60000000000 90105b70000000000 91105b80000000000 92105b90000000000 94105bb0000000000 95105bc0000000000 "
      [] block = "010c" ->
         "8010cc00000000000 8110cc10000000000 8210cc20000000000 8310cc30000000000 8410cc40000000000 8510cc50000000000 8610cc60000000000 8710cc70000000000 8810cc80000000000 8910cc90000000000 8a10cca0000000000 8b10ccb0000000000 8c10ccc0000000000 8d10ccd0000000000 8e10cce0000000000 8f10ccf0000000000 9010cd00000000000 9110cd10000000000 9210cd20000000000 9310cd30000000000 9410cd40000000000 9510cd50000000000 9610cd60000000000 9710cd70000000000 9810cd80000000000 9910cd90000000000 9a10cda0000000000 9b10cdb0000000000 9c10cdc0000000000 9d10cdd0000000000 9e10cde0000000000 9f10cdf0000000000 a010ce00000000000 a110ce10000000000 a210ce20000000000 a310ce30000000000 a410ce40000000000 a510ce50000000000 a610ce60000000000 a710ce70000000000 a810ce80000000000 a910ce90000000000 aa10cea0000000000 ab10ceb0000000000 ac10cec0000000000 ad10ced0000000000 ae10cee0000000000 af10cef0000000000 b010cf00000000000 b110cf10000000000 b210cf20000000000 "
      [] block = "0118" ->
         "a0118c00000000000 a1118c10000000000 a2118c20000000000 a3118c30000000000 a4118c40000000000 a5118c50000000000 a6118c60000000000 a7118c70000000000 a8118c80000000000 a9118c90000000000 aa118ca0000000000 ab118cb0000000000 ac118cc0000000000 ad118cd0000000000 ae118ce0000000000 af118cf0000000000 b0118d00000000000 b1118d10000000000 b2118d20000000000 b3118d30000000000 b4118d40000000000 b5118d50000000000 b6118d60000000000 b7118d70000000000 b8118d80000000000 b9118d90000000000 ba118da0000000000 bb118db0000000000 bc118dc0000000000 bd118dd0000000000 be118de0000000000 bf118df0000000000 "
      [] block = "016e" ->
         "4016e600000000000 4116e610000000000 4216e620000000000 4316e630000000000 4416e640000000000 4516e650000000000 4616e660000000000 4716e670000000000 4816e680000000000 4916e690000000000 4a16e6a0000000000 4b16e6b0000000000 4c16e6c0000000000 4d16e6d0000000000 4e16e6e0000000000 4f16e6f0000000000 5016e700000000000 5116e710000000000 5216e720000000000 5316e730000000000 5416e740000000000 5516e750000000000 5616e760000000000 5716e770000000000 5816e780000000000 5916e790000000000 5a16e7a0000000000 5b16e7b0000000000 5c16e7c0000000000 5d16e7d0000000000 5e16e7e0000000000 5f16e7f0000000000 "
      [] block = "01e9" ->
         "001e9220000000000 011e9230000000000 021e9240000000000 031e9250000000000 041e9260000000000 051e9270000000000 061e9280000000000 071e9290000000000 081e92a0000000000 091e92b0000000000 0a1e92c0000000000 0b1e92d0000000000 0c1e92e0000000000 0d1e92f0000000000 0e1e9300000000000 0f1e9310000000000 101e9320000000000 111e9330000000000 121e9340000000000 131e9350000000000 141e9360000000000 151e9370000000000 161e9380000000000 171e9390000000000 181e93a0000000000 191e93b0000000000 1a1e93c0000000000 1b1e93d0000000000 1c1e93e0000000000 1d1e93f0000000000 1e1e9400000000000 1f1e9410000000000 201e9420000000000 211e9430000000000 "
      [] OTHER -> ""

\* the characters of the block that title-casing changes, entries as above
TITLECASE(block) ==
    CASE block = "0000" ->
         "b50039c0000000000 df000530007300000 e0000c00000000000 e1000c10000000000 e2000c20000000000 e3000c30000000000 e4000c40000000000 e5000c50000000000 e6000c60000000000 e7000c70000000000 e8000c80000000000 e9000c90000000000 ea000ca0000000000 eb000cb0000000000 ec000cc0000000000 ed000cd0000000000 ee000ce0000000000 ef000cf0000000000 f0000d00000000000 f1000d10000000000 f2000d20000000000 f3000d30000000000 f4000d40000000000 f5000d50000000000 f6000d60000000000 f8000d80000000000 f9000d90000000000 fa000da0000000000 fb000db0000000000 fc000dc0000000000 fd000dd0000000000 fe000de0000000000 ff001780000000000 "
      [] block = "0001" ->
         "01001000000000000 03001020000000000 05001040000000000 07001060000000000 09001080000000000 0b0010a0000000000 0d0010c0000000000 0f0010e0000000000 11001100000000000 13001120000000000 15001140000000000 17001160000000000 19001180000000000 1b0011a0000000000 1d0011c0000000000 1f0011e0000000000 21001200000000000 23001220000000000 25001240000000000 27001260000000000 29001280000000000 2b0012a0000000000 2d0012c0000000000 2f0012e0000000000 31000490000000000 33001320000000000 35001340000000000 37001360000000000 3a001390000000000 3c0013b0000000000 3e0013d0000000000 400013f0000000000 42001410000000000 44001430000000000 46001450000000000 48001470000000000 49002bc0004e00000 4b0014a0000000000 4d0014c0000000000 4f0014e0000000000 51001500000000000 53001520000000000 55001540000000000 57001560000000000 59001580000000000 5b0015a0000000000 5d0015c0000000000 5f0015e0000000000 61001600000000000 63001620000000000 65001640000000000 67001660000000000 69001680000000000 6b0016a0000000000 6d0016c0000000000 6f0016e0000000000 71001700000000000 73001720000000000 75001740000000000 77001760000000000 7a001790000000000 7c0017b0000000000 7e0017d0000000000 7f000530000000000 80002430000000000 83001820000000000 85001840000000000 88001870000000000 8c0018b0000000000 92001910000000000 95001f60000000000 99001980000000000 9a0023d0000000000 9e002200000000000 a1001a00000000000 a3001a20000000000 a5001a40000000000 a8001a70000000000 ad001ac0000000000 b0001af0000000000 b4001b30000000000 b6001b50000000000 b9001b80000000000 bd001bc0000000000 bf001f70000000000 c4001c50000000000 c6001c50000000000 c7001c80000000000 c9001c80000000000 ca001cb0000000000 cc001cb0000000000 ce001cd0000000000 d0001cf0000000000 d2001d10000000000 d4001d30000000000 d6001d50000000000 d8001d70000000000 da001d90000000000 dc001db0000000000 dd0018e0000000000 df001de0000000000 e1001e00000000000 e3001e20000000000 e5001e40000000000 e7001e60000000000 e9001e80000000000 eb001ea0000000000 ed001ec0000000000 ef001ee0000000000 f00004a0030c00000 f1001f20000000000 f3001f20000000000 f5001f40000000000 f9001f80000000000 fb001fa0000000000 fd001fc0000000000 ff001fe0000000000 "
      [] block = "0002" ->
         "01002000000000000 03002020000000000 05002040000000000 07002060000000000 09002080000000000 0b0020a0000000000 0d0020c0000000000 0f0020e0000000000 11002100000000000 13002120000000000 15002140000000000 17002160000000000 19002180000000000 1b0021a0000000000 1d0021c0000000000 1f0021e0000000000 23002220000000000 25002240000000000 27002260000000000 29002280000000000 2b0022a0000000000 2d0022c0000000000 2f0022e0000000000 31002300000000000 33002320000000000 3c0023b0000000000 3f02c7e0000000000 4002c7f0000000000 42002410000000000 47002460000000000 49002480000000000 4b0024a0000000000 4d0024c0000000000 4f0024e0000000000 5002c6f0000000000 5102c6d0000000000 5202c700000000000 53001810000000000 54001860000000000 56001890000000000 570018a0000000000 590018f0000000000 5b001900000000000 5c0a7ab0000000000 60001930000000000 610a7ac0000000000 63001940000000000 650a78d0000000000 660a7aa0000000000 68001970000000000 69001960000000000 6a0a7ae0000000000 6b02c620000000000 6c0a7ad0000000000 6f0019c0000000000 7102c6e0000000000 720019d0000000000 750019f0000000000 7d02c640000000000 80001a60000000000 820a7c50000000000 83001a90000000000 870a7b10000000000 88001ae0000000000 89002440000000000 8a001b10000000000 8b001b20000000000 8c002450000000000 92001b70000000000 9d0a7b20000000000 9e0a7b00000000000 "
      [] block = "0003" ->
         "45003990000000000 71003700000000000 73003720000000000 77003760000000000 7b003fd0000000000 7c003fe0000000000 7d003ff0000000000 90003990030800301 ac003860000000000 ad003880000000000 ae003890000000000 af0038a0000000000 b0003a50030800301 b1003910000000000 b2003920000000000 b3003930000000000 b4003940000000000 b5003950000000000 b6003960000000000 b7003970000000000 b8003980000000000 b9003990000000000 ba0039a0000000000 bb0039b0000000000 bc0039c0000000000 bd0039d0000000000 be0039e0000000000 bf0039f0000000000 c0003a00000000000 c1003a10000000000 c2003a30000000000 c3003a30000000000 c4003a40000000000 c5003a50000000000 c6003a60000000000 c7003a70000000000 c8003a80000000000 c9003a90000000000 ca003aa0000000000 cb003ab0000000000 cc0038c0000000000 cd0038e0000000000 ce0038f0000000000 d0003920000000000 d1003980000000000 d5003a60000000000 d6003a00000000000 d7003cf0000000000 d9003d80000000000 db003da0000000000 dd003dc0000000000 df003de0000000000 e1003e00000000000 e3003e20000000000 e5003e40000000000 e7003e60000000000 e9003e80000000000 eb003ea0000000000 ed003ec0000000000 ef003ee0000000000 f00039a0000000000 f1003a10000000000 f2003f90000000000 f30037f0000000000 f5003950000000000 f8003f70000000000 fb003fa0000000000 "
      [] block = "0004" ->
         "30004100000000000 31004110000000000 32004120000000000 33004130000000000 34004140000000000 35004150000000000 36004160000000000 37004170000000000 38004180000000000 39004190000000000 3a0041a0000000000 3b0041b0000000000 3c0041c0000000000 3d0041d0000000000 3e0041e0000000000 3f0041f0000000000 40004200000000000 41004210000000000 42004220000000000 43004230000000000 44004240000000000 45004250000000000 46004260000000000 47004270000000000 48004280000000000 49004290000000000 4a0042a0000000000 4b0042b0000000000 4c0042c0000000000 4d0042d0000000000 4e0042e0000000000 4f0042f0000000000 50004000000000000 51004010000000000 52004020000000000 53004030000000000 54004040000000000 55004050000000000 56004060000000000 57004070000000000 58004080000000000 59004090000000000 5a0040a0000000000 5b0040b0000000000 5c0040c0000000000 5d0040d0000000000 5e0040e0000000000 5f0040f0000000000 61004600000000000 63004620000000000 65004640000000000 67004660000000000 69004680000000000 6b0046a0000000000 6d0046c0000000000 6f0046e0000000000 71004700000000000 73004720000000000 75004740000000000 77004760000000000 79004780000000000 7b0047a0000000000 7d0047c0000000000 7f0047e0000000000 81004800000000000 8b0048a0000000000 8d0048c0000000000 8f0048e0000000000 91004900000000000 93004920000000000 95004940000000000 97004960000000000 99004980000000000 9b0049a0000000000 9d0049c0000000000 9f0049e0000000000 a1004a00000000000 a3004a20000000000 a5004a40000000000 a7004a60000000000 a9004a80000000000 ab004aa0000000000 ad004ac0000000000 af004ae0000000000 b1004b00000000000 b3004b20000000000 b5004b40000000000 b7004b60000000000 b9004b80000000000 bb004ba0000000000 bd004bc0000000000 bf004be0000000000 c2004c10000000000 c4004c30000000000 c6004c50000000000 c8004c70000000000 ca004c90000000000 cc004cb0000000000 ce004cd0000000000 cf004c00000000000 d1004d00000000000 d3004d20000000000 d5004d40000000000 d7004d60000000000 d9004d80000000000 db004da0000000000 dd004dc0000000000 df004de0000000000 e1004e00000000000 e3004e20000000000 e5004e40000000000 e7004e60000000000 e9004e80000000000 eb004ea0000000000 ed004ec0000000000 ef004ee0000000000 f1004f00000000000 f3004f20000000000 f5004f40000000000 f7004f60000000000 f9004f80000000000 fb004fa0000000000 fd004fc0000000000 ff004fe0000000000 "
      [] block = "0005" ->
         "01005000000000000 03005020000000000 05005040000000000 07005060000000000 09005080000000000 0b0050a0000000000 0d0050c0000000000 0f0050e0000000000 11005100000000000 13005120000000000 15005140000000000 17005160000000000 19005180000000000 1b0051a0000000000 1d0051c0000000000 1f0051e0000000000 21005200000000000 23005220000000000 25005240000000000 27005260000000000 29005280000000000 2b0052a0000000000 2d0052c0000000000 2f0052e0000000000 61005310000000000 62005320000000000 63005330000000000 64005340000000000 65005350000000000 66005360000000000 67005370000000000 68005380000000000 69005390000000000 6a0053a0000000000 6b0053b0000000000 6c0053c0000000000 6d0053d0000000000 6e0053e0000000000 6f0053f0000000000 70005400000000000 71005410000000000 72005420000000000 73005430000000000 74005440000000000 75005450000000000 76005460000000000 77005470000000000 78005480000000000 79005490000000000 7a0054a0000000000 7b0054b0000000000 7c0054c0000000000 7d0054d0000000000 7e0054e0000000000 7f0054f0000000000 80005500000000000 81005510000000000 82005520000000000 83005530000000000 84005540000000000 85005550000000000 86005560000000000 87005350058200000 "
      [] block = "0013" ->
         "f8013f00000000000 f9013f10000000000 fa013f20000000000 fb013f30000000000 fc013f40000000000 fd013f50000000000 "
      [] block = "001c" ->
         "80004120000000000 81004140000000000 820041e0000000000 83004210000000000 84004220000000000 85004220000000000 860042a0000000000 87004620000000000 880a64a0000000000 "
      [] block = "001d" ->
         "790a77d0000000000 7d02c630000000000 8e0a7c60000000000 "
      [] block = "001e" ->
         "0101e000000000000 0301e020000000000 0501e040000000000 0701e060000000000 0901e080000000000 0b01e0a0000000000 0d01e0c0000000000 0f01e0e0000000000 1101e100000000000 1301e120000000000 1501e140000000000 1701e160000000000 1901e180000000000 1b01e1a0000000000 1d01e1c0000000000 1f01e1e0000000000 2101e200000000000 2301e220000000000 2501e240000000000 2701e260000000000 2901e280000000000 2b01e2a0000000000 2d01e2c0000000000 2f01e2e0000000000 3101e300000000000 3301e320000000000 3501e340000000000 3701e360000000000 3901e380000000000 3b01e3a0000000000 3d01e3c0000000000 3f01e3e0000000000 4101e400000000000 4301e420000000000 4501e440000000000 4701e460000000000 4901e480000000000 4b01e4a0000000000 4d01e4c0000000000 4f01e4e0000000000 5101e500000000000 5301e520000000000 5501e540000000000 5701e560000000000 5901e580000000000 5b01e5a0000000000 5d01e5c0000000000 5f01e5e0000000000 6101e600000000000 6301e620000000000 6501e640000000000 6701e660000000000 6901e680000000000 6b01e6a0000000000 6d01e6c0000000000 6f01e6e0000000000 7101e700000000000 7301e720000000000 7501e740000000000 7701e760000000000 7901e780000000000 7b01e7a0000000000 7d01e7c0000000000 7f01e7e0000000000 8101e800000000000 8301e820000000000 8501e840000000000 8701e860000000000 8901e880000000000 8b01e8a0000000000 8d01e8c0000000000 8f01e8e0000000000 9101e900000000000 9301e920000000000 9501e940000000000 96000480033100000 97000540030800000 98000570030a00000 99000590030a00000 9a00041002be00000 9b01e600000000000 a101ea00000000000 a301ea20000000000 a501ea40000000000 a701ea60000000000 a901ea80000000000 ab01eaa0000000000 ad01eac0000000000 af01eae0000000000 b101eb00000000000 b301eb20000000000 b501eb40000000000 b701eb60000000000 b901eb80000000000 bb01eba0000000000 bd01ebc0000000000 bf01ebe0000000000 c101ec00000000000 c301ec20000000000 c501ec40000000000 c701ec60000000000 c901ec80000000000 cb01eca0000000000 cd01ecc0000000000 cf01ece0000000000 d101ed00000000000 d301ed20000000000 d501ed40000000000 d701ed60000000000 d901ed80000000000 db01eda0000000000 dd01edc0000000000 df01ede0000000000 e101ee00000000000 e301ee20000000000 e501ee40000000000 e701ee60000000000 e901ee80000000000 eb01eea0000000000 ed01eec0000000000 ef01eee0000000000 f101ef00000000000 f301ef20000000000 f501ef40000000000 f701ef60000000000 f901ef80000000000 fb01efa0000000000 fd01efc0000000000 ff01efe0000000000 "
      [] block = "001f" ->
         "0001f080000000000 0101f090000000000 0201f0a0000000000 0301f0b0000000000 0401f0c0000000000 0501f0d0000000000 0601f0e0000000000 0701f0f0000000000 1001f180000000000 1101f190000000000 1201f1a0000000000 1301f1b0000000000 1401f1c0000000000 1501f1d0000000000 2001f280000000000 2101f290000000000 2201f2a0000000000 2301f2b0000000000 2401f2c0000000000 2501f2d0000000000 2601f2e0000000000 2701f2f0000000000 3001f380000000000 3101f390000000000 3201f3a0000000000 3301f3b0000000000 3401f3c0000000000 3501f3d0000000000 3601f3e0000000000 3701f3f0000000000 4001f480000000000 4101f490000000000 4201f4a0000000000 4301f4b0000000000 4401f4c0000000000 4501f4d0000000000 50003a50031300000 5101f590000000000 52003a50031300300 5301f5b0000000000 54003a50031300301 5501f5d0000000000 56003a50031300342 5701f5f0000000000 6001f680000000000 6101f690000000000 6201f6a0000000000 6301f6b0000000000 6401f6c0000000000 6501f6d0000000000 6601f6e0000000000 6701f6f0000000000 7001fba0000000000 7101fbb0000000000 7201fc80000000000 7301fc90000000000 7401fca0000000000 7501fcb0000000000 7601fda0000000000 7701fdb0000000000 7801ff80000000000 7901ff90000000000 7a01fea0000000000 7b01feb0000000000 7c01ffa0000000000 7d01ffb0000000000 8001f880000000000 8101f890000000000 8201f8a0000000000 8301f8b0000000000 8401f8c0000000000 8501f8d0000000000 8601f8e0000000000 8701f8f0000000000 9001f980000000000 9101f990000000000 9201f9a0000000000 9301f9b0000000000 9401f9c0000000000 9501f9d0000000000 9601f9e0000000000 9701f9f0000000000 a001fa80000000000 a101fa90000000000 a201faa0000000000 a301fab0000000000 a401fac0000000000 a501fad0000000000 a601fae0000000000 a701faf0000000000 b001fb80000000000 b101fb90000000000 b201fba0034500000 b301fbc0000000000 b4003860034500000 b6003910034200000 b7003910034200345 be003990000000000 c201fca0034500000 c301fcc0000000000 c4003890034500000 c6003970034200000 c7003970034200345 d001fd80000000000 d101fd90000000000 d2003990030800300 d3003990030800301 d6003990034200000 d7003990030800342 e001fe80000000000 e101fe90000000000 e2003a50030800300 e3003a50030800301 e4003a10031300000 e501fec0000000000 e6003a50034200000 e7003a50030800342 f201ffa0034500000 f301ffc0000000000 f40038f0034500000 f6003a90034200000 f7003a90034200345 "
      [] block = "0021" ->
         "4e021320000000000 70021600000000000 71021610000000000 72021620000000000 73021630000000000 74021640000000000 75021650000000000 76021660000000000 77021670000000000 78021680000000000 79021690000000000 7a0216a0000000000 7b0216b0000000000 7c0216c0000000000 7d0216d0000000000 7e0216e0000000000 7f0216f0000000000 84021830000000000 "
      [] block = "0024" ->
         "d0024b60000000000 d1024b70000000000 d2024b80000000000 d3024b90000000000 d4024ba0000000000 d5024bb0000000000 d6024bc0000000000 d7024bd0000000000 d8024be0000000000 d9024bf0000000000 da024c00000000000 db024c10000000000 dc024c20000000000 dd024c30000000000 de024c40000000000 df024c50000000000 e0024c60000000000 e1024c70000000000 e2024c80000000000 e3024c90000000000 e4024ca0000000000 e5024cb0000000000 e6024cc0000000000 e7024cd0000000000 e8024ce0000000000 e9024cf0000000000 "
      [] block = "002c" ->
         "3002c000000000000 3102c010000000000 3202c020000000000 3302c030000000000 3402c040000000000 3502c050000000000 3602c060000000000 3702c070000000000 3802c080000000000 3902c090000000000 3a02c0a0000000000 3b02c0b0000000000 3c02c0c0000000000 3d02c0d0000000000 3e02c0e0000000000 3f02c0f0000000000 4002c100000000000 4102c110000000000 4202c120000000000 4302c130000000000 4402c140000000000 4502c150000000000 4602c160000000000 4702c170000000000 4802c180000000000 4902c190000000000 4a02c1a0000000000 4b02c1b0000000000 4c02c1c0000000000 4d02c1d0000000000 4e02c1e0000000000 4f02c1f0000000000 5002c200000000000 5102c210000000000 5202c220000000000 5302c230000000000 5402c240000000000 5502c250000000000 5602c260000000000 5702c270000000000 5802c280000000000 5902c290000000000 5a02c2a0000000000 5b02c2b0000000000 5c02c2c0000000000 5d02c2d0000000000 5e02c2e0000000000 5f02c2f0000000000 6102c600000000000 650023a0000000000 660023e0000000000 6802c670000000000 6a02c690000000000 6c02c6b0000000000 7302c720000000000 7602c750000000000 8102c800000000000 8302c820000000000 8502c840000000000 8702c860000000000 8902c880000000000 8b02c8a0000000000 8d02c8c0000000000 8f02c8e0000000000 9102c900000000000 9302c920000000000 9502c940000000000 9702c960000000000 9902c980000000000 9b02c9a0000000000 9d02c9c0000000000 9f02c9e0000000000 a102ca00000000000 a302ca20000000000 a502ca40000000000 a702ca60000000000 a902ca80000000000 ab02caa0000000000 ad02cac0000000000 af02cae0000000000 b102cb00000000000 b302cb20000000000 b502cb40000000000 b702cb60000000000 b902cb80000000000 bb02cba0000000000 bd02cbc0000000000 bf02cbe0000000000 c102cc00000000000 c302cc20000000000 c502cc40000000000 c702cc60000000000 c902cc80000000000 cb02cca0000000000 cd02ccc0000000000 cf02cce0000000000 d102cd00000000000 d302cd20000000000 d502cd40000000000 d702cd60000000000 d902cd80000000000 db02cda0000000000 dd02cdc0000000000 df02cde0000000000 e102ce00000000000 e302ce20000000000 ec02ceb0000000000 ee02ced0000000000 f302cf20000000000 "
      [] block = "002d" ->
         "00010a00000000000 01010a10000000000 02010a20000000000 03010a30000000000 04010a40000000000 05010a50000000000 06010a60000000000 07010a70000000000 08010a80000000000 09010a90000000000 0a010aa0000000000 0b010ab0000000000 0c010ac0000000000 0d010ad0000000000 0e010ae0000000000 0f010af0000000000 10010b00000000000 11010b10000000000 12010b20000000000 13010b30000000000 14010b40000000000 15010b50000000000 16010b60000000000 17010b70000000000 18010b80000000000 19010b90000000000 1a010ba0000000000 1b010bb0000000000 1c010bc0000000000 1d010bd0000000000 1e010be0000000000 1f010bf0000000000 20010c00000000000 21010c10000000000 22010c20000000000 23010c30000000000 24010c40000000000 25010c50000000000 27010c70000000000 2d010cd0000000000 "
      [] block = "00a6" ->
         "410a6400000000000 430a6420000000000 450a6440000000000 470a6460000000000 490a6480000000000 4b0a64a0000000000 4d0a64c0000000000 4f0a64e0000000000 510a6500000000000 530a6520000000000 550a6540000000000 570a6560000000000 590a6580000000000 5b0a65a0000000000 5d0a65c0000000000 5f0a65e0000000000 610a6600000000000 630a6620000000000 650a6640000000000 670a6660000000000 690a6680000000000 6b0a66a0000000000 6d0a66c0000000000 810a6800000000000 830a6820000000000 850a6840000000000 870a6860000000000 890a6880000000000 8b0a68a0000000000 8d0a68c0000000000 8f0a68e0000000000 910a6900000000000 930a6920000000000 950a6940000000000 970a6960000000000 990a6980000000000 9b0a69a0000000000 "
      [] block = "00a7" ->
         "230a7220000000000 250a7240000000000 270a7260000000000 290a7280000000000 2b0a72a0000000000 2d0a72c0000000000 2f0a72e0000000000 330a7320000000000 350a7340000000000 370a7360000000000 390a7380000000000 3b0a73a0000000000 3d0a73c0000000000 3f0a73e0000000000 410a7400000000000 430a7420000000000 450a7440000000000 470a7460000000000 490a7480000000000 4b0a74a0000000000 4d0a74c0000000000 4f0a74e0000000000 510a7500000000000 530a7520000000000 550a7540000000000 570a7560000000000 590a7580000000000 5b0a75a0000000000 5d0a75c0000000000 5f0a75e0000000000 610a7600000000000 630a7620000000000 650a7640000000000 670a7660000000000 690a7680000000000 6b0a76a0000000000 6d0a76c0000000000 6f0a76e0000000000 7a0a7790000000000 7c0a77b0000000000 7f0a77e0000000000 810a7800000000000 830a7820000000000 850a7840000000000 870a7860000000000 8c0a78b0000000000 910a7900000000000 930a7920000000000 940a7c40000000000 970a7960000000000 990a7980000000000 9b0a79a0000000000 9d0a79c0000000000 9f0a79e0000000000 a10a7a00000000000 a30a7a20000000000 a50a7a40000000000 a70a7a60000000000 a90a7a80000000000 b50a7b40000000000 b70a7b60000000000 b90a7b80000000000 bb0a7ba0000000000 bd0a7bc0000000000 bf0a7be0000000000 c10a7c00000000000 c30a7c20000000000 c80a7c70000000000 ca0a7c90000000000 d10a7d00000000000 d70a7d60000000000 d90a7d80000000000 f60a7f50000000000 "
      [] block = "00ab" ->
         "530a7b30000000000 70013a00000000000 71013a10000000000 72013a20000000000 73013a30000000000 74013a40000000000 75013a50000000000 76013a60000000000 77013a70000000000 78013a80000000000 79013a90000000000 7a013aa0000000000 7b013ab0000000000 7c013ac0000000000 7d013ad0000000000 7e013ae0000000000 7f013af0000000000 80013b00000000000 81013b10000000000 82013b20000000000 83013b30000000000 84013b40000000000 85013b50000000000 86013b60000000000 87013b70000000000 88013b80000000000 89013b90000000000 8a013ba0000000000 8b013bb0000000000 8c013bc0000000000 8d013bd0000000000 8e013be0000000000 8f013bf0000000000 90013c00000000000 91013c10000000000 92013c20000000000 93013c30000000000 94013c40000000000 95013c50000000000 96013c60000000000 97013c70000000000 98013c80000000000 99013c90000000000 9a013ca0000000000 9b013cb0000000000 9c013cc0000000000 9d013cd0000000000 9e013ce0000000000 9f013cf0000000000 a0013d00000000000 a1013d10000000000 a2013d20000000000 a3013d30000000000 a4013d40000000000 a5013d50000000000 a6013d60000000000 a7013d70000000000 a8013d80000000000 a9013d90000000000 aa013da0000000000 ab013db0000000000 ac013dc0000000000 ad013dd0000000000 ae013de0000000000 af013df0000000000 b0013e00000000000 b1013e10000000000 b2013e20000000000 b3013e30000000000 b4013e40000000000 b5013e50000000000 b6013e60000000000 b7013e70000000000 b8013e80000000000 b9013e90000000000 ba013ea0000000000 bb013eb0000000000 bc013ec0000000000 bd013ed0000000000 be013ee0000000000 bf013ef0000000000 "
      [] block = "00fb" ->
         "00000460006600000 01000460006900000 02000460006c00000 03000460006600069 0400046000660006c 05000530007400000 06000530007400000 13005440057600000 14005440056500000 15005440056b00000 160054e0057600000 17005440056d00000 "
      [] block = "00ff" ->
         "410ff210000000000 420ff220000000000 430ff230000000000 440ff240000000000 450ff250000000000 460ff260000000000 470ff270000000000 480ff280000000000 490ff290000000000 4a0ff2a0000000000 4b0ff2b0000000000 4c0ff2c0000000000 4d0ff2d0000000000 4e0ff2e0000000000 4f0ff2f0000000000 500ff300000000000 510ff310000000000 520ff320000000000 530ff330000000000 540ff340000000000 550ff350000000000 560ff360000000000 570ff370000000000 580ff380000000000 590ff390000000000 5a0ff3a0000000000 "
      [] block = "0104" ->
         "28104000000000000 29104010000000000 2a104020000000000 2b104030000000000 2c104040000000000 2d104050000000000 2e104060000000000 2f104070000000000 30104080000000000 31104090000000000 321040a0000000000 331040b0000000000 341040c0000000000 351040d0000000000 361040e0000000000 371040f0000000000 38104100000000000 39104110000000000 3a104120000000000 3b104130000000000 3c104140000000000 3d104150000000000 3e104160000000000 3f104170000000000 40104180000000000 41104190000000000 421041a0000000000 431041b0000000000 441041c0000000000 451041d0000000000 461041e0000000000 471041f0000000000 48104200000000000 49104210000000000 4a104220000000000 4b104230000000000 4c104240000000000 4d104250000000000 4e104260000000000 4f104270000000000 d8104b00000000000 d9104b10000000000 da104b20000000000 db104b30000000000 dc104b40000000000 dd104b50000000000 de104b60000000000 df104b70000000000 e0104b80000000000 e1104b90000000000 e2104ba0000000000 e3104bb0000000000 e4104bc0000000000 e5104bd0000000000 e6104be0000000000 e7104bf0000000000 e8104c00000000000 e9104c10000000000 ea104c20000000000 eb104c30000000000 ec104c40000000000 ed104c50000000000 ee104c60000000000 ef104c70000000000 f0104c80000000000 f1104c90000000000 f2104ca0000000000 f3104cb0000000000 f4104cc0000000000 f5104cd0000000000 f6104ce0000000000 f7104cf0000000000 f8104d00000000000 f9104d10000000000 fa104d20000000000 fb104d30000000000 "
      [] block = "0105" ->
         "97105700000000000 98105710000000000 99105720000000000 9a105730000000000 9b105740000000000 9c105750000000000 9d105760000000000 9e105770000000000 9f105780000000000 a0105790000000000 a11057a0000000000 a31057c0000000000 a41057d0000000000 a51057e0000000000 a61057f0000000000 a7105800000000000 a8105810000000000 a9105820000000000 aa105830000000000 ab105840000000000 ac105850000000000 ad105860000000000 ae105870000000000 af105880000000000 b0105890000000000 b11058a0000000000 b31058c0000000000 b41058d0000000000 b51058e0000000000 b61058f0000000000 b7105900000000000 b8105910000000000 b9105920000000000 bb105940000000000 bc105950000000000 "
      [] block = "010c" ->
         "c010c800000000000 c110c810000000000 c210c820000000000 c310c830000000000 c410c840000000000 c510c850000000000 c610c860000000000 c710c870000000000 c810c880000000000 c910c890000000000 ca10c8a0000000000 cb10c8b0000000000 cc10c8c0000000000 cd10c8d0000000000 ce10c8e0000000000 cf10c8f0000000000 d010c900000000000 d110c910000000000 d210c920000000000 d310c930000000000 d410c940000000000 d510c950000000000 d610c960000000000 d710c970000000000 d810c980000000000 d910c990000000000 da10c9a0000000000 db10c9b0000000000 dc10c9c0000000000 dd10c9d0000000000 de10c9e0000000000 df10c9f0000000000 e010ca00000000000 e110ca10000000000 e210ca20000000000 e310ca30000000000 e410ca40000000000 e510ca50000000000 e610ca60000000000 e710ca70000000000 e810ca80000000000 e910ca90000000000 ea10caa0000000000 eb10cab0000000000 ec10cac0000000000 ed10cad0000000000 ee10cae0000000000 ef10caf0000000000 f010cb00000000000 f110cb10000000000 f210cb20000000000 "
      [] block = "0118" ->
         "c0118a00000000000 c1118a10000000000 c2118a20000000000 c3118a30000000000 c4118a40000000000 c5118a50000000000 c6118a60000000000 c7118a70000000000 c8118a80000000000 c9118a90000000000 ca118aa0000000000 cb118ab0000000000 cc118ac0000000000 cd118ad0000000000 ce118ae0000000000 cf118af0000000000 d0118b00000000000 d1118b10000000000 d2118b20000000000 d3118b30000000000 d4118b40000000000 d5118b50000000000 d6118b60000000000 d7118b70000000000 d8118b80000000000 d9118b90000000000 da118ba0000000000 db118bb0000000000 dc118bc0000000000 dd118bd0000000000 de118be0000000000 df118bf0000000000 "
      [] block = "016e" ->
         "6016e400000000000 6116e410000000000 6216e420000000000 6316e430000000000 6416e440000000000 6516e450000000000 6616e460000000000 6716e470000000000 6816e480000000000 6916e490000000000 6a16e4a0000000000 6b16e4b0000000000 6c16e4c0000000000 6d16e4d0000000000 6e16e4e0000000000 6f16e4f0000000000 7016e500000000000 7116e510000000000 7216e520000000000 7316e530000000000 7416e540000000000 7516e550000000000 7616e560000000000 7716e570000000000 7816e580000000000 7916e590000000000 7a16e5a0000000000 7b16e5b0000000000 7c16e5c0000000000 7d16e5d0000000000 7e16e5e0000000000 7f16e5f0000000000 "
      [] block = "01e9" ->
         "221e9000000000000 231e9010000000000 241e9020000000000 251e9030000000000 261e9040000000000 271e9050000000000 281e9060000000000 291e9070000000000 2a1e9080000000000 2b1e9090000000000 2c1e90a0000000000 2d1e90b0000000000 2e1e90c0000000000 2f1e90d0000000000 301e90e0000000000 311e90f0000000000 321e9100000000000 331e9110000000000 341e9120000000000 351e9130000000000 361e9140000000000 371e9150000000000 381e9160000000000 391e9170000000000 3a1e9180000000000 3b1e9190000000000 3c1e91a0000000000 3d1e91b0000000000 3e1e91c0000000000 3f1e91d0000000000 401e91e0000000000 411e91f0000000000 421e9200000000000 431e9210000000000 "
      [] OTHER -> ""

\* the characters of the block that are cased and not case-ignorable, by
\* their last two hex digits
CASED(block) ==
    CASE block = "0000" ->
         "aa b5 ba c0 c1 c2 c3 c4 c5 c6 c7 c8 c9 ca cb cc cd ce cf d0 d1 d2 d3 d4 d5 d6 d8 d9 da db dc dd de df e0 e1 e2 e3 e4 e5 e6 e7 e8 e9 ea eb ec ed ee ef f0 f1 f2 f3 f4 f5 f6 f8 f9 fa fb fc fd fe ff "
      [] block = "0001" ->
         "00 01 02 03 04 05 06 07 08 09 0a 0b 0c 0d 0e 0f 10 11 12 13 14 15 16 17 18 19 1a 1b 1c 1d 1e 1f 20 21 22 23 24 25 26 27 28 29 2a 2b 2c 2d 2e 2f 30 31 32 33 34 35 36 37 38 39 3a 3b 3c 3d 3e 3f 40 41 42 43 44 45 46 47 48 49 4a 4b 4c 4d 4e 4f 50 51 52 53 54 55 56 57 58 59 5a 5b 5c 5d 5e 5f 60 61 62 63 64 65 66 67 68 69 6a 6b 6c 6d 6e 6f 70 71 72 73 74 75 76 77 78 79 7a 7b 7c 7d 7e 7f 80 81 82 83 84 85 86 87 88 89 8a 8b 8c 8d 8e 8f 90 91 92 93 94 95 96 97 98 99 9a 9b 9c 9d 9e 9f a0 a1 a2 a3 a4 a5 a6 a7 a8 a9 aa ab ac ad ae af b0 b1 b2 b3 b4 b5 b6 b7 b8 b9 ba bc bd be bf c4 c5 c6 c7 c8 c9 ca cb cc cd ce cf d0 d1 d2 d3 d4 d5 d6 d7 d8 d9 da db dc dd de df e0 e1 e2 e3 e4 e5 e6 e7 e8 e9 ea eb ec ed ee ef f0 f1 f2 f3 f4 f5 f6 f7 f8 f9 fa fb fc fd fe ff "
      [] block = "0002" ->
         "00 01 02 03 04 05 06 07 08 09 0a 0b 0c 0d 0e 0f 10 11 12 13 14 15 16 17 18 19 1a 1b 1c 1d 1e 1f 20 21 22 23 24 25 26 27 28 29 2a 2b 2c 2d 2e 2f 30 31 32 33 34 35 36 37 38 39 3a 3b 3c 3d 3e 3f 40 41 42 43 44 45 46 47 48 49 4a 4b 4c 4d 4e 4f 50 51 52 53 54 55 56 57 58 59 5a 5b 5c 5d 5e 5f 60 61 62 63 64 65 66 67 68 69 6a 6b 6c 6d 6e 6f 70 71 72 73 74 75 76 77 78 79 7a 7b 7c 7d 7e 7f 80 81 82 83 84 85 86 87 88 89 8a 8b 8c 8d 8e 8f 90 91 92 93 95 96 97 98 99 9a 9b 9c 9d 9e 9f a0 a1 a2 a3 a4 a5 a6 a7 a8 a9 aa ab ac ad ae af "
      [] block = "0003" ->
         "70 71 72 73 76 77 7b 7c 7d 7f 86 88 89 8a 8c 8e 8f 90 91 92 93 94 95 96 97 98 99 9a 9b 9c 9d 9e 9f a0 a1 a3 a4 a5 a6 a7 a8 a9 aa ab ac ad ae af b0 b1 b2 b3 b4 b5 b6 b7 b8 b9 ba bb bc bd be bf c0 c1 c2 c3 c4 c5 c6 c7 c8 c9 ca cb cc cd ce cf d0 d1 d2 d3 d4 d5 d6 d7 d8 d9 da db dc dd de df e0 e1 e2 e3 e4 e5 e6 e7 e8 e9 ea eb ec ed ee ef f0 f1 f2 f3 f4 f5 f7 f8 f9 fa fb fc fd fe ff "
      [] block = "0004" ->
         "00 01 02 03 04 05 06 07 08 09 0a 0b 0c 0d 0e 0f 10 11 12 13 14 15 16 17 18 19 1a 1b 1c 1d 1e 1f 20 21 22 23 24 25 26 27 28 29 2a 2b 2c 2d 2e 2f 30 31 32 33 34 35 36 37 38 39 3a 3b 3c 3d 3e 3f 40 41 42 43 44 45 46 47 48 49 4a 4b 4c 4d 4e 4f 50 51 52 53 54 55 56 57 58 59 5a 5b 5c 5d 5e 5f 60 61 62 63 64 65 66 67 68 69 6a 6b 6c 6d 6e 6f 70 71 72 73 74 75 76 77 78 79 7a 7b 7c 7d 7e 7f 80 81 8a 8b 8c 8d 8e 8f 90 91 92 93 94 95 96 97 98 99 9a 9b 9c 9d 9e 9f a0 a1 a2 a3 a4 a5 a6 a7 a8 a9 aa ab ac ad ae af b0 b1 b2 b3 b4 b5 b6 b7 b8 b9 ba bb bc bd be bf c0 c1 c2 c3 c4 c5 c6 c7 c8 c9 ca cb cc cd ce cf d0 d1 d2 d3 d4 d5 d6 d7 d8 d9 da db dc dd de df e0 e1 e2 e3 e4 e5 e6 e7 e8 e9 ea eb ec ed ee ef f0 f1 f2 f3 f4 f5 f6 f7 f8 f9 fa fb fc fd fe ff "
      [] block = "0005" ->
         "00 01 02 03 04 05 06 07 08 09 0a 0b 0c 0d 0e 0f 10 11 12 13 14 15 16 17 18 19 1a 1b 1c 1d 1e 1f 20 21 22 23 24 25 26 27 28 29 2a 2b 2c 2d 2e 2f 31 32 33 34 35 36 37 38 39 3a 3b 3c 3d 3e 3f 40 41 42 43 44 45 46 47 48 49 4a 4b 4c 4d 4e 4f 50 51 52 53 54 55 56 60 61 62 63 64 65 66 67 68 69 6a 6b 6c 6d 6e 6f 70 71 72 73 74 75 76 77 78 79 7a 7b 7c 7d 7e 7f 80 81 82 83 84 85 86 87 88 "
      [] block = "0010" ->
         "a0 a1 a2 a3 a4 a5 a6 a7 a8 a9 aa ab ac ad ae af b0 b1 b2 b3 b4 b5 b6 b7 b8 b9 ba bb bc bd be bf c0 c1 c2 c3 c4 c5 c7 cd d0 d1 d2 d3 d4 d5 d6 d7 d8 d9 da db dc dd de df e0 e1 e2 e3 e4 e5 e6 e7 e8 e9 ea eb ec ed ee ef f0 f1 f2 f3 f4 f5 f6 f7 f8 f9 fa fd fe ff "
      [] block = "0013" ->
         "a0 a1 a2 a3 a4 a5 a6 a7 a8 a9 aa ab ac ad ae af b0 b1 b2 b3 b4 b5 b6 b7 b8 b9 ba bb bc bd be bf c0 c1 c2 c3 c4 c5 c6 c7 c8 c9 ca cb cc cd ce cf d0 d1 d2 d3 d4 d5 d6 d7 d8 d9 da db dc dd de df e0 e1 e2 e3 e4 e5 e6 e7 e8 e9 ea eb ec ed ee ef f0 f1 f2 f3 f4 f5 f8 f9 fa fb fc fd "
      [] block = "001c" ->
         "80 81 82 83 84 85 86 87 88 90 91 92 93 94 95 96 97 98 99 9a 9b 9c 9d 9e 9f a0 a1 a2 a3 a4 a5 a6 a7 a8 a9 aa ab ac ad ae af b0 b1 b2 b3 b4 b5 b6 b7 b8 b9 ba bd be bf "
      [] block = "001d" ->
         "00 01 02 03 04 05 06 07 08 09 0a 0b 0c 0d 0e 0f 10 11 12 13 14 15 16 17 18 19 1a 1b 1c 1d 1e 1f 20 21 22 23 24 25 26 27 28 29 2a 2b 6b 6c 6d 6e 6f 70 71 72 73 74 75 76 77 79 7a 7b 7c 7d 7e 7f 80 81 82 83 84 85 86 87 88 89 8a 8b 8c 8d 8e 8f 90 91 92 93 94 95 96 97 98 99 9a "
      [] block = "001e" ->
         "00 01 02 03 04 05 06 07 08 09 0a 0b 0c 0d 0e 0f 10 11 12 13 14 15 16 17 18 19 1a 1b 1c 1d 1e 1f 20 21 22 23 24 25 26 27 28 29 2a 2b 2c 2d 2e 2f 30 31 32 33 34 35 36 37 38 39 3a 3b 3c 3d 3e 3f 40 41 42 43 44 45 46 47 48 49 4a 4b 4c 4d 4e 4f 50 51 52 53 54 55 56 57 58 59 5a 5b 5c 5d 5e 5f 60 61 62 63 64 65 66 67 68 69 6a 6b 6c 6d 6e 6f 70 71 72 73 74 75 76 77 78 79 7a 7b 7c 7d 7e 7f 80 81 82 83 84 85 86 87 88 89 8a 8b 8c 8d 8e 8f 90 91 92 93 94 95 96 97 98 99 9a 9b 9c 9d 9e 9f a0 a1 a2 a3 a4 a5 a6 a7 a8 a9 aa ab ac ad ae af b0 b1 b2 b3 b4 b5 b6 b7 b8 b9 ba bb bc bd be bf c0 c1 c2 c3 c4 c5 c6 c7 c8 c9 ca cb cc cd ce cf d0 d1 d2 d3 d4 d5 d6 d7 d8 d9 da db dc dd de df e0 e1 e2 e3 e4 e5 e6 e7 e8 e9 ea eb ec ed ee ef f0 f1 f2 f3 f4 f5 f6 f7 f8 f9 fa fb fc fd fe ff "
      [] block = "001f" ->
         "00 01 02 03 04 05 06 07 08 09 0a 0b 0c 0d 0e 0f 10 11 12 13 14 15 18 19 1a 1b 1c 1d 20 21 22 23 24 25 26 27 28 29 2a 2b 2c 2d 2e 2f 30 31 32 33 34 35 36 37 38 39 3a 3b 3c 3d 3e 3f 40 41 42 43 44 45 48 49 4a 4b 4c 4d 50 51 52 53 54 55 56 57 59 5b 5d 5f 60 61 62 63 64 65 66 67 68 69 6a 6b 6c 6d 6e 6f 70 71 72 73 74 75 76 77 78 79 7a 7b 7c 7d 80 81 82 83 84 85 86 87 88 89 8a 8b 8c 8d 8e 8f 90 91 92 93 94 95 96 97 98 99 9a 9b 9c 9d 9e 9f a0 a1 a2 a3 a4 a5 a6 a7 a8 a9 aa ab ac ad ae af b0 b1 b2 b3 b4 b6 b7 b8 b9 ba bb bc be c2 c3 c4 c6 c7 c8 c9 ca cb cc d0 d1 d2 d3 d6 d7 d8 d9 da db e0 e1 e2 e3 e4 e5 e6 e7 e8 e9 ea eb ec f2 f3 f4 f6 f7 f8 f9 fa fb fc "
      [] block = "0021" ->
         "02 07 0a 0b 0c 0d 0e 0f 10 11 12 13 15 19 1a 1b 1c 1d 24 26 28 2a 2b 2c 2d 2f 30 31 32 33 34 39 3c 3d 3e 3f 45 46 47 48 49 4e 60 61 62 63 64 65 66 67 68 69 6a 6b 6c 6d 6e 6f 70 71 72 73 74 75 76 77 78 79 7a 7b 7c 7d 7e 7f 83 84 "
      [] block = "0024" ->
         "b6 b7 b8 b9 ba bb bc bd be bf c0 c1 c2 c3 c4 c5 c6 c7 c8 c9 ca cb cc cd ce cf d0 d1 d2 d3 d4 d5 d6 d7 d8 d9 da db dc dd de df e0 e1 e2 e3 e4 e5 e6 e7 e8 e9 "
      [] block = "002c" ->
         "00 01 02 03 04 05 06 07 08 09 0a 0b 0c 0d 0e 0f 10 11 12 13 14 15 16 17 18 19 1a 1b 1c 1d 1e 1f 20 21 22 23 24 25 26 27 28 29 2a 2b 2c 2d 2e 2f 30 31 32 33 34 35 36 37 38 39 3a 3b 3c 3d 3e 3f 40 41 42 43 44 45 46 47 48 49 4a 4b 4c 4d 4e 4f 50 51 52 53 54 55 56 57 58 59 5a 5b 5c 5d 5e 5f 60 61 62 63 64 65 66 67 68 69 6a 6b 6c 6d 6e 6f 70 71 72 73 74 75 76 77 78 79 7a 7b 7e 7f 80 81 82 83 84 85 86 87 88 89 8a 8b 8c 8d 8e 8f 90 91 92 93 94 95 96 97 98 99 9a 9b 9c 9d 9e 9f a0 a1 a2 a3 a4 a5 a6 a7 a8 a9 aa ab ac ad ae af b0 b1 b2 b3 b4 b5 b6 b7 b8 b9 ba bb bc bd be bf c0 c1 c2 c3 c4 c5 c6 c7 c8 c9 ca cb cc cd ce cf d0 d1 d2 d3 d4 d5 d6 d7 d8 d9 da db dc dd de df e0 e1 e2 e3 e4 eb ec ed ee f2 f3 "
      [] block = "002d" ->
         "00 01 02 03 04 05 06 07 08 09 0a 0b 0c 0d 0e 0f 10 11 12 13 14 15 16 17 18 19 1a 1b 1c 1d 1e 1f 20 21 22 23 24 25 27 2d "
      [] block = "00a6" ->
         "40 41 42 43 44 45 46 47 48 49 4a 4b 4c 4d 4e 4f 50 51 52 53 54 55 56 57 58 59 5a 5b 5c 5d 5e 5f 60 61 62 63 64 65 66 67 68 69 6a 6b 6c 6d 80 81 82 83 84 85 86 87 88 89 8a 8b 8c 8d 8e 8f 90 91 92 93 94 95 96 97 98 99 9a 9b "
      [] block = "00a7" ->
         "22 23 24 25 26 27 28 29 2a 2b 2c 2d 2e 2f 30 31 32 33 34 35 36 37 38 39 3a 3b 3c 3d 3e 3f 40 41 42 43 44 45 46 47 48 49 4a 4b 4c 4d 4e 4f 50 51 52 53 54 55 56 57 58 59 5a 5b 5c 5d 5e 5f 60 61 62 63 64 65 66 67 68 69 6a 6b 6c 6d 6e 6f 71 72 73 74 75 76 77 78 79 7a 7b 7c 7d 7e 7f 80 81 82 83 84 85 86 87 8b 8c 8d 8e 90 91 92 93 94 95 96 97 98 99 9a 9b 9c 9d 9e 9f a0 a1 a2 a3 a4 a5 a6 a7 a8 a9 aa ab ac ad ae af b0 b1 b2 b3 b4 b5 b6 b7 b8 b9 ba bb bc bd be bf c0 c1 c2 c3 c4 c5 c6 c7 c8 c9 ca d0 d1 d3 d5 d6 d7 d8 d9 f5 f6 fa "
      [] block = "00ab" ->
         "30 31 32 33 34 35 36 37 38 39 3a 3b 3c 3d 3e 3f 40 41 42 43 44 45 46 47 48 49 4a 4b 4c 4d 4e 4f 50 51 52 53 54 55 56 57 58 59 5a 60 61 62 63 64 65 66 67 68 70 71 72 73 74 75 76 77 78 79 7a 7b 7c 7d 7e 7f 80 81 82 83 84 85 86 87 88 89 8a 8b 8c 8d 8e 8f 90 91 92 93 94 95 96 97 98 99 9a 9b 9c 9d 9e 9f a0 a1 a2 a3 a4 a5 a6 a7 a8 a9 aa ab ac ad ae af b0 b1 b2 b3 b4 b5 b6 b7 b8 b9 ba bb bc bd be bf "
      [] block = "00fb" ->
         "00 01 02 03 04 05 06 13 14 15 16 17 "
      [] block = "00ff" ->
         "21 22 23 24 25 26 27 28 29 2a 2b 2c 2d 2e 2f 30 31 32 33 34 35 36 37 38 39 3a 41 42 43 44 45 46 47 48 49 4a 4b 4c 4d 4e 4f 50 51 52 53 54 55 56 57 58 59 5a "
      [] block = "0104" ->
         "00 01 02 03 04 05 06 07 08 09 0a 0b 0c 0d 0e 0f 10 11 12 13 14 15 16 17 18 19 1a 1b 1c 1d 1e 1f 20 21 22 23 24 25 26 27 28 29 2a 2b 2c 2d 2e 2f 30 31 32 33 34 35 36 37 38 39 3a 3b 3c 3d 3e 3f 40 41 42 43 44 45 46 47 48 49 4a 4b 4c 4d 4e 4f b0 b1 b2 b3 b4 b5 b6 b7 b8 b9 ba bb bc bd be bf c0 c1 c2 c3 c4 c5 c6 c7 c8 c9 ca cb cc cd ce cf d0 d1 d2 d3 d8 d9 da db dc dd de df e0 e1 e2 e3 e4 e5 e6 e7 e8 e9 ea eb ec ed ee ef f0 f1 f2 f3 f4 f5 f6 f7 f8 f9 fa fb "
      [] block = "0105" ->
         "70 71 72 73 74 75 76 77 78 79 7a 7c 7d 7e 7f 80 81 82 83 84 85 86 87 88 89 8a 8c 8d 8e 8f 90 91 92 94 95 97 98 99 9a 9b 9c 9d 9e 9f a0 a1 a3 a4 a5 a6 a7 a8 a9 aa ab ac ad ae af b0 b1 b3 b4 b5 b6 b7 b8 b9 bb bc "
      [] block = "010c" ->
         "80 81 82 83 84 85 86 87 88 89 8a 8b 8c 8d 8e 8f 90 91 92 93 94 95 96 97 98 99 9a 9b 9c 9d 9e 9f a0 a1 a2 a3 a4 a5 a6 a7 a8 a9 aa ab ac ad ae af b0 b1 b2 c0 c1 c2 c3 c4 c5 c6 c7 c8 c9 ca cb cc cd ce cf d0 d1 d2 d3 d4 d5 d6 d7 d8 d9 da db dc dd de df e0 e1 e2 e3 e4 e5 e6 e7 e8 e9 ea eb ec ed ee ef f0 f1 f2 "
      [] block = "0118" ->
         "a0 a1 a2 a3 a4 a5 a6 a7 a8 a9 aa ab ac ad ae af b0 b1 b2 b3 b4 b5 b6 b7 b8 b9 ba bb bc bd be bf c0 c1 c2 c3 c4 c5 c6 c7 c8 c9 ca cb cc cd ce cf d0 d1 d2 d3 d4 d5 d6 d7 d8 d9 da db dc dd de df "
      [] block = "016e" ->
         "40 41 42 43 44 45 46 47 48 49 4a 4b 4c 4d 4e 4f 50 51 52 53 54 55 56 57 58 59 5a 5b 5c 5d 5e 5f 60 61 62 63 64 65 66 67 68 69 6a 6b 6c 6d 6e 6f 70 71 72 73 74 75 76 77 78 79 7a 7b 7c 7d 7e 7f "
      [] block = "01d4" ->
         "00 01 02 03 04 05 06 07 08 09 0a 0b 0c 0d 0e 0f 10 11 12 13 14 15 16 17 18 19 1a 1b 1c 1d 1e 1f 20 21 22 23 24 25 26 27 28 29 2a 2b 2c 2d 2e 2f 30 31 32 33 34 35 36 37 38 39 3a 3b 3c 3d 3e 3f 40 41 42 43 44 45 46 47 48 49 4a 4b 4c 4d 4e 4f 50 51 52 53 54 56 57 58 59 5a 5b 5c 5d 5e 5f 60 61 62 63 64 65 66 67 68 69 6a 6b 6c 6d 6e 6f 70 71 72 73 74 75 76 77 78 79 7a 7b 7c 7d 7e 7f 80 81 82 83 84 85 86 87 88 89 8a 8b 8c 8d 8e 8f 90 91 92 93 94 95 96 97 98 99 9a 9b 9c 9e 9f a2 a5 a6 a9 aa ab ac ae af b0 b1 b2 b3 b4 b5 b6 b7 b8 b9 bb bd be bf c0 c1 c2 c3 c5 c6 c7 c8 c9 ca cb cc cd ce cf d0 d1 d2 d3 d4 d5 d6 d7 d8 d9 da db dc dd de df e0 e1 e2 e3 e4 e5 e6 e7 e8 e9 ea eb ec ed ee ef f0 f1 f2 f3 f4 f5 f6 f7 f8 f9 fa fb fc fd fe ff "
      [] block = "01d5" ->
         "00 01 02 03 04 05 07 08 09 0a 0d 0e 0f 10 11 12 13 14 16 17 18 19 1a 1b 1c 1e 1f 20 21 22 23 24 25 26 27 28 29 2a 2b 2c 2d 2e 2f 30 31 32 33 34 35 36 37 38 39 3b 3c 3d 3e 40 41 42 43 44 46 4a 4b 4c 4d 4e 4f 50 52 53 54 55 56 57 58 59 5a 5b 5c 5d 5e 5f 60 61 62 63 64 65 66 67 68 69 6a 6b 6c 6d 6e 6f 70 71 72 73 74 75 76 77 78 79 7a 7b 7c 7d 7e 7f 80 81 82 83 84 85 86 87 88 89 8a 8b 8c 8d 8e 8f 90 91 92 93 94 95 96 97 98 99 9a 9b 9c 9d 9e 9f a0 a1 a2 a3 a4 a5 a6 a7 a8 a9 aa ab ac ad ae af b0 b1 b2 b3 b4 b5 b6 b7 b8 b9 ba bb bc bd be bf c0 c1 c2 c3 c4 c5 c6 c7 c8 c9 ca cb cc cd ce cf d0 d1 d2 d3 d4 d5 d6 d7 d8 d9 da db dc dd de df e0 e1 e2 e3 e4 e5 e6 e7 e8 e9 ea eb ec ed ee ef f0 f1 f2 f3 f4 f5 f6 f7 f8 f9 fa fb fc fd fe ff "
      [] block = "01d6" ->
         "00 01 02 03 04 05 06 07 08 09 0a 0b 0c 0d 0e 0f 10 11 12 13 14 15 16 17 18 19 1a 1b 1c 1d 1e 1f 20 21 22 23 24 25 26 27 28 29 2a 2b 2c 2d 2e 2f 30 31 32 33 34 35 36 37 38 39 3a 3b 3c 3d 3e 3f 40 41 42 43 44 45 46 47 48 49 4a 4b 4c 4d 4e 4f 50 51 52 53 54 55 56 57 58 59 5a 5b 5c 5d 5e 5f 60 61 62 63 64 65 66 67 68 69 6a 6b 6c 6d 6e 6f 70 71 72 73 74 75 76 77 78 79 7a 7b 7c 7d 7e 7f 80 81 82 83 84 85 86 87 88 89 8a 8b 8c 8d 8e 8f 90 91 92 93 94 95 96 97 98 99 9a 9b 9c 9d 9e 9f a0 a1 a2 a3 a4 a5 a8 a9 aa ab ac ad ae af b0 b1 b2 b3 b4 b5 b6 b7 b8 b9 ba bb bc bd be bf c0 c2 c3 c4 c5 c6 c7 c8 c9 ca cb cc cd ce cf d0 d1 d2 d3 d4 d5 d6 d7 d8 d9 da dc dd de df e0 e1 e2 e3 e4 e5 e6 e7 e8 e9 ea eb ec ed ee ef f0 f1 f2 f3 f4 f5 f6 f7 f8 f9 fa fc fd fe ff "
      [] block = "01d7" ->
         "00 01 02 03 04 05 06 07 08 09 0a 0b 0c 0d 0e 0f 10 11 12 13 14 16 17 18 19 1a 1b 1c 1d 1e 1f 20 21 22 23 24 25 26 27 28 29 2a 2b 2c 2d 2e 2f 30 31 32 33 34 36 37 38 39 3a 3b 3c 3d 3e 3f 40 41 42 43 44 45 46 47 48 49 4a 4b 4c 4d 4e 50 51 52 53 54 55 56 57 58 59 5a 5b 5c 5d 5e 5f 60 61 62 63 64 65 66 67 68 69 6a 6b 6c 6d 6e 70 71 72 73 74 75 76 77 78 79 7a 7b 7c 7d 7e 7f 80 81 82 83 84 85 86 87 88 8a 8b 8c 8d 8e 8f 90 91 92 93 94 95 96 97 98 99 9a 9b 9c 9d 9e 9f a0 a1 a2 a3 a4 a5 a6 a7 a8 aa ab ac ad ae af b0 b1 b2 b3 b4 b5 b6 b7 b8 b9 ba bb bc bd be bf c0 c1 c2 c4 c5 c6 c7 c8 c9 ca cb "
      [] block = "01df" ->
         "00 01 02 03 04 05 06 07 08 09 0b 0c 0d 0e 0f 10 11 12 13 14 15 16 17 18 19 1a 1b 1c 1d 1e "
      [] block = "01e9" ->
         "00 01 02 03 04 05 06 07 08 09 0a 0b 0c 0d 0e 0f 10 11 12 13 14 15 16 17 18 19 1a 1b 1c 1d 1e 1f 20 21 22 23 24 25 26 27 28 29 2a 2b 2c 2d 2e 2f 30 31 32 33 34 35 36 37 38 39 3a 3b 3c 3d 3e 3f 40 41 42 43 "
      [] block = "01f1" ->
         "30 31 32 33 34 35 36 37 38 39 3a 3b 3c 3d 3e 3f 40 41 42 43 44 45 46 47 48 49 50 51 52 53 54 55 56 57 58 59 5a 5b 5c 5d 5e 5f 60 61 62 63 64 65 66 67 68 69 70 71 72 73 74 75 76 77 78 79 7a 7b 7c 7d 7e 7f 80 81 82 83 84 85 86 87 88 89 "
      [] OTHER -> ""

\* the case-ignorable characters of the block
CASE_IGNORABLE(block) ==
    CASE block = "0000" ->
         "60 a8 ad af b4 b7 b8 "
      [] block = "0002" ->
         "b0 b1 b2 b3 b4 b5 b6 b7 b8 b9 ba bb bc bd be bf c0 c1 c2 c3 c4 c5 c6 c7 c8 c9 ca cb cc cd ce cf d0 d1 d2 d3 d4 d5 d6 d7 d8 d9 da db dc dd de df e0 e1 e2 e3 e4 e5 e6 e7 e8 e9 ea eb ec ed ee ef f0 f1 f2 f3 f4 f5 f6 f7 f8 f9 fa fb fc fd fe ff "
      [] block = "0003" ->
         "00 01 02 03 04 05 06 07 08 09 0a 0b 0c 0d 0e 0f 10 11 12 13 14 15 16 17 18 19 1a 1b 1c 1d 1e 1f 20 21 22 23 24 25 26 27 28 29 2a 2b 2c 2d 2e 2f 30 31 32 33 34 35 36 37 38 39 3a 3b 3c 3d 3e 3f 40 41 42 43 44 45 46 47 48 49 4a 4b 4c 4d 4e 4f 50 51 52 53 54 55 56 57 58 59 5a 5b 5c 5d 5e 5f 60 61 62 63 64 65 66 67 68 69 6a 6b 6c 6d 6e 6f 74 75 7a 84 85 87 "
      [] block = "0004" ->
         "83 84 85 86 87 88 89 "
      [] block = "0005" ->
         "59 5f 91 92 93 94 95 96 97 98 99 9a 9b 9c 9d 9e 9f a0 a1 a2 a3 a4 a5 a6 a7 a8 a9 aa ab ac ad ae af b0 b1 b2 b3 b4 b5 b6 b7 b8 b9 ba bb bc bd bf c1 c2 c4 c5 c7 f4 "
      [] block = "0006" ->
         "00 01 02 03 04 05 10 11 12 13 14 15 16 17 18 19 1a 1c 40 4b 4c 4d 4e 4f 50 51 52 53 54 55 56 57 58 59 5a 5b 5c 5d 5e 5f 70 d6 d7 d8 d9 da db dc dd df e0 e1 e2 e3 e4 e5 e6 e7 e8 ea eb ec ed "
      [] block = "0007" ->
         "0f 11 30 31 32 33 34 35 36 37 38 39 3a 3b 3c 3d 3e 3f 40 41 42 43 44 45 46 47 48 49 4a a6 a7 a8 a9 aa ab ac ad ae af b0 eb ec ed ee ef f0 f1 f2 f3 f4 f5 fa fd "
      [] block = "0008" ->
         "16 17 18 19 1a 1b 1c 1d 1e 1f 20 21 22 23 24 25 26 27 28 29 2a 2b 2c 2d 59 5a 5b 88 90 91 98 99 9a 9b 9c 9d 9e 9f c9 ca cb cc cd ce cf d0 d1 d2 d3 d4 d5 d6 d7 d8 d9 da db dc dd de df e0 e1 e2 e3 e4 e5 e6 e7 e8 e9 ea eb ec ed ee ef f0 f1 f2 f3 f4 f5 f6 f7 f8 f9 fa fb fc fd fe ff "
      [] block = "0009" ->
         "00 01 02 3a 3c 41 42 43 44 45 46 47 48 4d 51 52 53 54 55 56 57 62 63 71 81 bc c1 c2 c3 c4 cd e2 e3 fe "
      [] block = "000a" ->
         "01 02 3c 41 42 47 48 4b 4c 4d 51 70 71 75 81 82 bc c1 c2 c3 c4 c5 c7 c8 cd e2 e3 fa fb fc fd fe ff "
      [] block = "000b" ->
         "01 3c 3f 41 42 43 44 4d 55 56 62 63 82 c0 cd "
      [] block = "000c" ->
         "00 04 3c 3e 3f 40 46 47 48 4a 4b 4c 4d 55 56 62 63 81 bc bf c6 cc cd e2 e3 "
      [] block = "000d" ->
         "00 01 3b 3c 41 42 43 44 4d 62 63 81 ca d2 d3 d4 d6 "
      [] block = "000e" ->
         "31 34 35 36 37 38 39 3a 46 47 48 49 4a 4b 4c 4d 4e b1 b4 b5 b6 b7 b8 b9 ba bb bc c6 c8 c9 ca cb cc cd "
      [] block = "000f" ->
         "18 19 35 37 39 71 72 73 74 75 76 77 78 79 7a 7b 7c 7d 7e 80 81 82 83 84 86 87 8d 8e 8f 90 91 92 93 94 95 96 97 99 9a 9b 9c 9d 9e 9f a0 a1 a2 a3 a4 a5 a6 a7 a8 a9 aa ab ac ad ae af b0 b1 b2 b3 b4 b5 b6 b7 b8 b9 ba bb bc c6 "
      [] block = "0010" ->
         "2d 2e 2f 30 32 33 34 35 36 37 39 3a 3d 3e 58 59 5e 5f 60 71 72 73 74 82 85 86 8d 9d fc "
      [] block = "0013" ->
         "5d 5e 5f "
      [] block = "0017" ->
         "12 13 14 32 33 52 53 72 73 b4 b5 b7 b8 b9 ba bb bc bd c6 c9 ca cb cc cd ce cf d0 d1 d2 d3 d7 dd "
      [] block = "0018" ->
         "0b 0c 0d 0e 0f 43 85 86 a9 "
      [] block = "0019" ->
         "20 21 22 27 28 32 39 3a 3b "
      [] block = "001a" ->
         "17 18 1b 56 58 59 5a 5b 5c 5d 5e 60 62 65 66 67 68 69 6a 6b 6c 73 74 75 76 77 78 79 7a 7b 7c 7f a7 b0 b1 b2 b3 b4 b5 b6 b7 b8 b9 ba bb bc bd be bf c0 c1 c2 c3 c4 c5 c6 c7 c8 c9 ca cb cc cd ce "
      [] block = "001b" ->
         "00 01 02 03 34 36 37 38 39 3a 3c 42 6b 6c 6d 6e 6f 70 71 72 73 80 81 a2 a3 a4 a5 a8 a9 ab ac ad e6 e8 e9 ed ef f0 f1 "
      [] block = "001c" ->
         "2c 2d 2e 2f 30 31 32 33 36 37 78 79 7a 7b 7c 7d d0 d1 d2 d4 d5 d6 d7 d8 d9 da db dc dd de df e0 e2 e3 e4 e5 e6 e7 e8 ed f4 f8 f9 "
      [] block = "001d" ->
         "2c 2d 2e 2f 30 31 32 33 34 35 36 37 38 39 3a 3b 3c 3d 3e 3f 40 41 42 43 44 45 46 47 48 49 4a 4b 4c 4d 4e 4f 50 51 52 53 54 55 56 57 58 59 5a 5b 5c 5d 5e 5f 60 61 62 63 64 65 66 67 68 69 6a 78 9b 9c 9d 9e 9f a0 a1 a2 a3 a4 a5 a6 a7 a8 a9 aa ab ac ad ae af b0 b1 b2 b3 b4 b5 b6 b7 b8 b9 ba bb bc bd be bf c0 c1 c2 c3 c4 c5 c6 c7 c8 c9 ca cb cc cd ce cf d0 d1 d2 d3 d4 d5 d6 d7 d8 d9 da db dc dd de df e0 e1 e2 e3 e4 e5 e6 e7 e8 e9 ea eb ec ed ee ef f0 f1 f2 f3 f4 f5 f6 f7 f8 f9 fa fb fc fd fe ff "
      [] block = "001f" ->
         "bd bf c0 c1 cd ce cf dd de df ed ee ef fd fe "
      [] block = "0020" ->
         "0b 0c 0d 0e 0f 18 19 24 27 2a 2b 2c 2d 2e 60 61 62 63 64 66 67 68 69 6a 6b 6c 6d 6e 6f 71 7f 90 91 92 93 94 95 96 97 98 99 9a 9b 9c d0 d1 d2 d3 d4 d5 d6 d7 d8 d9 da db dc dd de df e0 e1 e2 e3 e4 e5 e6 e7 e8 e9 ea eb ec ed ee ef f0 "
      [] block = "002c" ->
         "7c 7d ef f0 f1 "
      [] block = "002d" ->
         "6f 7f e0 e1 e2 e3 e4 e5 e6 e7 e8 e9 ea eb ec ed ee ef f0 f1 f2 f3 f4 f5 f6 f7 f8 f9 fa fb fc fd fe ff "
      [] block = "002e" ->
         "2f "
      [] block = "0030" ->
         "05 2a 2b 2c 2d 31 32 33 34 35 3b 99 9a 9b 9c 9d 9e fc fd fe "
      [] block = "00a0" ->
         "15 "
      [] block = "00a4" ->
         "f8 f9 fa fb fc fd "
      [] block = "00a6" ->
         "0c 6f 70 71 72 74 75 76 77 78 79 7a 7b 7c 7d 7f 9c 9d 9e 9f f0 f1 "
      [] block = "00a7" ->
         "00 01 02 03 04 05 06 07 08 09 0a 0b 0c 0d 0e 0f 10 11 12 13 14 15 16 17 18 19 1a 1b 1c 1d 1e 1f 20 21 70 88 89 8a f2 f3 f4 f8 f9 "
      [] block = "00a8" ->
         "02 06 0b 25 26 2c c4 c5 e0 e1 e2 e3 e4 e5 e6 e7 e8 e9 ea eb ec ed ee ef f0 f1 ff "
      [] block = "00a9" ->
         "26 27 28 29 2a 2b 2c 2d 47 48 49 4a 4b 4c 4d 4e 4f 50 51 80 81 82 b3 b6 b7 b8 b9 bc bd cf e5 e6 "
      [] block = "00aa" ->
         "29 2a 2b 2c 2d 2e 31 32 35 36 43 4c 70 7c b0 b2 b3 b4 b7 b8 be bf c1 dd ec ed f3 f4 f6 "
      [] block = "00ab" ->
         "5b 5c 5d 5e 5f 69 6a 6b e5 e8 ed "
      [] block = "00fb" ->
         "1e b2 b3 b4 b5 b6 b7 b8 b9 ba bb bc bd be bf c0 c1 c2 "
      [] block = "00fe" ->
         "00 01 02 03 04 05 06 07 08 09 0a 0b 0c 0d 0e 0f 13 20 21 22 23 24 25 26 27 28 29 2a 2b 2c 2d 2e 2f 52 55 ff "
      [] block = "00ff" ->
         "07 0e 1a 3e 40 70 9e 9f e3 f9 fa fb "
      [] block = "0101" ->
         "fd "
      [] block = "0102" ->
         "e0 "
      [] block = "0103" ->
         "76 77 78 79 7a "
      [] block = "0107" ->
         "80 81 82 83 84 85 87 88 89 8a 8b 8c 8d 8e 8f 90 91 92 93 94 95 96 97 98 99 9a 9b 9c 9d 9e 9f a0 a1 a2 a3 a4 a5 a6 a7 a8 a9 aa ab ac ad ae af b0 b2 b3 b4 b5 b6 b7 b8 b9 ba "
      [] block = "010a" ->
         "01 02 03 05 06 0c 0d 0e 0f 38 39 3a 3f e5 e6 "
      [] block = "010d" ->
         "24 25 26 27 "
      [] block = "010e" ->
         "ab ac "
      [] block = "010f" ->
         "46 47 48 49 4a 4b 4c 4d 4e 4f 50 82 83 84 85 "
      [] block = "0110" ->
         "01 38 39 3a 3b 3c 3d 3e 3f 40 41 42 43 44 45 46 70 73 74 7f 80 81 b3 b4 b5 b6 b9 ba bd c2 cd "
      [] block = "0111" ->
         "00 01 02 27 28 29 2a 2b 2d 2e 2f 30 31 32 33 34 73 80 81 b6 b7 b8 b9 ba bb bc bd be c9 ca cb cc cf "
      [] block = "0112" ->
         "2f 30 31 34 36 37 3e df e3 e4 e5 e6 e7 e8 e9 ea "
      [] block = "0113" ->
         "00 01 3b 3c 40 66 67 68 69 6a 6b 6c 70 71 72 73 74 "
      [] block = "0114" ->
         "38 39 3a 3b 3c 3d 3e 3f 42 43 44 46 5e b3 b4 b5 b6 b7 b8 ba bf c0 c2 c3 "
      [] block = "0115" ->
         "b2 b3 b4 b5 bc bd bf c0 dc dd "
      [] block = "0116" ->
         "33 34 35 36 37 38 39 3a 3d 3f 40 ab ad b0 b1 b2 b3 b4 b5 b7 "
      [] block = "0117" ->
         "1d 1e 1f 22 23 24 25 27 28 29 2a 2b "
      [] block = "0118" ->
         "2f 30 31 32 33 34 35 36 37 39 3a "
      [] block = "0119" ->
         "3b 3c 3e 43 d4 d5 d6 d7 da db e0 "
      [] block = "011a" ->
         "01 02 03 04 05 06 07 08 09 0a 33 34 35 36 37 38 3b 3c 3d 3e 47 51 52 53 54 55 56 59 5a 5b 8a 8b 8c 8d 8e 8f 90 91 92 93 94 95 96 98 99 "
      [] block = "011c" ->
         "30 31 32 33 34 35 36 38 39 3a 3b 3c 3d 3f 92 93 94 95 96 97 98 99 9a 9b 9c 9d 9e 9f a0 a1 a2 a3 a4 a5 a6 a7 aa ab ac ad ae af b0 b2 b3 b5 b6 "
      [] block = "011d" ->
         "31 32 33 34 35 36 3a 3c 3d 3f 40 41 42 43 44 45 47 90 91 95 97 "
      [] block = "011e" ->
         "f3 f4 "
      [] block = "0134" ->
         "30 31 32 33 34 35 36 37 38 "
      [] block = "016a" ->
         "f0 f1 f2 f3 f4 "
      [] block = "016b" ->
         "30 31 32 33 34 35 36 40 41 42 43 "
      [] block = "016f" ->
         "4f 8f 90 91 92 93 94 95 96 97 98 99 9a 9b 9c 9d 9e 9f e0 e1 e3 e4 "
      [] block = "01af" ->
         "f0 f1 f2 f3 f5 f6 f7 f8 f9 fa fb fd fe "
      [] block = "01bc" ->
         "9d 9e a0 a1 a2 a3 "
      [] block = "01cf" ->
         "00 01 02 03 04 05 06 07 08 09 0a 0b 0c 0d 0e 0f 10 11 12 13 14 15 16 17 18 19 1a 1b 1c 1d 1e 1f 20 21 22 23 24 25 26 27 28 29 2a 2b 2c 2d 30 31 32 33 34 35 36 37 38 39 3a 3b 3c 3d 3e 3f 40 41 42 43 44 45 46 "
      [] block = "01d1" ->
         "67 68 69 73 74 75 76 77 78 79 7a 7b 7c 7d 7e 7f 80 81 82 85 86 87 88 89 8a 8b aa ab ac ad "
      [] block = "01d2" ->
         "42 43 44 "
      [] block = "01da" ->
         "00 01 02 03 04 05 06 07 08 09 0a 0b 0c 0d 0e 0f 10 11 12 13 14 15 16 17 18 19 1a 1b 1c 1d 1e 1f 20 21 22 23 24 25 26 27 28 29 2a 2b 2c 2d 2e 2f 30 31 32 33 34 35 36 3b 3c 3d 3e 3f 40 41 42 43 44 45 46 47 48 49 4a 4b 4c 4d 4e 4f 50 51 52 53 54 55 56 57 58 59 5a 5b 5c 5d 5e 5f 60 61 62 63 64 65 66 67 68 69 6a 6b 6c 75 84 9b 9c 9d 9e 9f a1 a2 a3 a4 a5 a6 a7 a8 a9 aa ab ac ad ae af "
      [] block = "01e0" ->
         "00 01 02 03 04 05 06 08 09 0a 0b 0c 0d 0e 0f 10 11 12 13 14 15 16 17 18 1b 1c 1d 1e 1f 20 21 23 24 26 27 28 29 2a "
      [] block = "01e1" ->
         "30 31 32 33 34 35 36 37 38 39 3a 3b 3c 3d "
      [] block = "01e2" ->
         "ae ec ed ee ef "
      [] block = "01e8" ->
         "d0 d1 d2 d3 d4 d5 d6 "
      [] block = "01e9" ->
         "44 45 46 47 48 49 4a 4b "
      [] block = "01f3" ->
         "fb fc fd fe ff "
      [] block = "0e00" ->
         "01 20 21 22 23 24 25 26 27 28 29 2a 2b 2c 2d 2e 2f 30 31 32 33 34 35 36 37 38 39 3a 3b 3c 3d 3e 3f 40 41 42 43 44 45 46 47 48 49 4a 4b 4c 4d 4e 4f 50 51 52 53 54 55 56 57 58 59 5a 5b 5c 5d 5e 5f 60 61 62 63 64 65 66 67 68 69 6a 6b 6c 6d 6e 6f 70 71 72 73 74 75 76 77 78 79 7a 7b 7c 7d 7e 7f "
      [] block = "0e01" ->
         "00 01 02 03 04 05 06 07 08 09 0a 0b 0c 0d 0e 0f 10 11 12 13 14 15 16 17 18 19 1a 1b 1c 1d 1e 1f 20 21 22 23 24 25 26 27 28 29 2a 2b 2c 2d 2e 2f 30 31 32 33 34 35 36 37 38 39 3a 3b 3c 3d 3e 3f 40 41 42 43 44 45 46 47 48 49 4a 4b 4c 4d 4e 4f 50 51 52 53 54 55 56 57 58 59 5a 5b 5c 5d 5e 5f 60 61 62 63 64 65 66 67 68 69 6a 6b 6c 6d 6e 6f 70 71 72 73 74 75 76 77 78 79 7a 7b 7c 7d 7e 7f 80 81 82 83 84 85 86 87 88 89 8a 8b 8c 8d 8e 8f 90 91 92 93 94 95 96 97 98 99 9a 9b 9c 9d 9e 9f a0 a1 a2 a3 a4 a5 a6 a7 a8 a9 aa ab ac ad ae af b0 b1 b2 b3 b4 b5 b6 b7 b8 b9 ba bb bc bd be bf c0 c1 c2 c3 c4 c5 c6 c7 c8 c9 ca cb cc cd ce cf d0 d1 d2 d3 d4 d5 d6 d7 d8 d9 da db dc dd de df e0 e1 e2 e3 e4 e5 e6 e7 e8 e9 ea eb ec ed ee ef "
      [] OTHER -> ""

CAPITAL_SIGMA == "\\u03a3"
SMALL_SIGMA == "\\u03c3"
FINAL_SIGMA == "\\u03c2"

\* a block's text, of entries width letters long, has an entry for the
\* character with the last two hex digits low; where that entry starts
HasEntry(text, width, low) ==
    \E k \in 0..((Len(text) \div width) - 1) :
        SubSeq(text, width * k + 1, width * k + 2) = low
EntryStart(text, width, low) ==
    width * (CHOOSE k \in 0..((Len(text) \div width) - 1) :
                 SubSeq(text, width * k + 1, width * k + 2) = low)

\* the characters of the code points an entry lists
CharsOf(points) == [n \in 1..Len(points) |-> CharOf(points[n])]
PointsAt(text, at) ==
    SelectSeq(<<SubSeq(text, at + 3, at + 7), SubSeq(text, at + 8, at + 12),
                SubSeq(text, at + 13, at + 17)>>,
              LAMBDA point : point # "00000")

\* the text a block of LOWERCASE or TITLECASE makes of the character c
Mapped(text, c) ==
    IF HasEntry(text, 18, Low(c))
    THEN CharsOf(PointsAt(text, EntryStart(text, 18, Low(c))))
    ELSE <<c>>

IsCased(c) ==
    IF IsEscape(c) THEN HasEntry(CASED(Block(c)), 3, Low(c))
    ELSE IsUpper(c) \/ IsLower(c)

IsCaseIgnorable(c) ==
    IF IsEscape(c) THEN HasEntry(CASE_IGNORABLE(Block(c)), 3, Low(c))
    ELSE c \in {"'", ".", ":", "^"}

\* the places of s that hold a character that is not case-ignorable; those
\* of them that hold a cased one
Solid(s) == {j \in 1..Len(s) : ~IsCaseIgnorable(s[j])}
SolidCased(s, solid) == {j \in solid : IsCased(s[j])}

\* with the places solid and those of them cased: the nearest solid place
\* before i is cased and the nearest one after i, if any, is not
EndsWord(i, solid, cased) ==
    /\ \E j \in cased : j < i /\ \A k \in solid : k < i => k <= j
    /\ \A j \in cased : j > i => \E k \in solid : k > i /\ k < j

\* a capital sigma at s[i] ends a word: skipping case-ignorable characters,
\* a cased character stands before it and none stands after it
FinalSigma(s, i) == EndsWord(i, Solid(s), SolidCased(s, Solid(s)))

\* what lower-casing makes of the character s[i]: one character or several
LowerChar(s, i) ==
    IF s[i] = CAPITAL_SIGMA
    THEN <<IF FinalSigma(s, i) THEN FINAL_SIGMA ELSE SMALL_SIGMA>>
    ELSE IF IsEscape(s[i]) THEN Mapped(LOWERCASE(Block(s[i])), s[i])
    ELSE IF IsUpper(s[i]) THEN <<LOWER[IndexIn(s[i], UPPER)]>>
    ELSE <<s[i]>>

\* what title-casing makes of the character c
TitleChar(c) ==
    IF IsEscape(c) THEN Mapped(TITLECASE(Block(c)), c)
    ELSE IF IsLower(c) THEN <<UPPER[IndexIn(c, LOWER)]>>
    ELSE <<c>>

RECURSIVE LowerFrom(_, _)
LowerFrom(s, i) ==
    IF i > Len(s) THEN <<>> ELSE LowerChar(s, i) \o LowerFrom(s, i + 1)

\* str.lower()
StrLower(s) == LowerFrom(s, 1)

RECURSIVE LStrip(_)
LStrip(s) == IF s # <<>> /\ Head(s) \in WHITESPACE THEN LStrip(Tail(s)) ELSE s

RECURSIVE RStrip(_)
RStrip(s) ==
    IF s # <<>> /\ s[Len(s)] \in WHITESPACE THEN RStrip(SubSeq(s, 1, Len(s) - 1)) ELSE s

\* str.strip()
StrStrip(s) == RStrip(LStrip(s))

\* str.capitalize(): first character title-cased, the rest lower-cased
StrCapitalize(s) ==
    IF s = <<>> THEN <<>> ELSE TitleChar(s[1]) \o LowerFrom(s, 2)

\* str.startswith(prefix)
StrStartsWith(s, prefix) ==
    Len(s) >= Len(prefix) /\ SubSeq(s, 1, Len(prefix)) = prefix

\* ------------------------------------------------------------ constants
R_MILLI == 8314
T_REF_C == 5
\* the 273.15 of lines 19 and 98
KELVIN_OFFSET == WideOfRatio(27315, 100)
OPTIMAL_RH == 90

ALPHA_BASE == 3500
ALPHA_MIN == 1000
ALPHA_MAX == 8000
SENSOR_WEIGHT_PCT == 30
ML_WEIGHT_PCT == 40
HISTORY_LIMIT == 120

APPLE == <<"a","p","p","l","e">>
BANANA == <<"b","a","n","a","n","a">>
TOMATO == <<"t","o","m","a","t","o">>
MANGO == <<"m","a","n","g","o">>
POTATO == <<"p","o","t","a","t","o">>

\* KINETIC_DATA: Ea in J/mol, lnA = ln(A) in 1/FX, ref_life_days in days
KINETIC_KEYS == {APPLE, BANANA, TOMATO, MANGO, POTATO}
KINETIC_DATA ==
    [f \in KINETIC_KEYS |->
        CASE f = APPLE  -> [Ea |-> 70000, lnA |-> 260216, ref_life_days |-> 60]
          [] f = BANANA -> [Ea |-> 62000, lnA |-> 229205, ref_life_days |-> 14]
          [] f = TOMATO -> [Ea |-> 36000, lnA |-> 119184, ref_life_days |-> 14]
          [] f = MANGO  -> [Ea |-> 46000, lnA |-> 170344, ref_life_days |-> 12]
          [] f = POTATO -> [Ea |-> 60000, lnA |-> 244121, ref_life_days |-> 90]]

\* dict.get(key): None when the key is missing
KineticGet(fruit) == IF fruit \in KINETIC_KEYS THEN Some(KINETIC_DATA[fruit]) ELSE None

\* ------------------------------------------------------------ physics helpers
\* temp_c + 273.15 as the hardware computes it, temp_c a double
ToKelvin(temp_c) == WideAdd(temp_c, KELVIN_OFFSET)

T_REF_K == ToKelvin(WideOfWhole(T_REF_C))

\* a temperature in kelvin, 0 <= temp_k < 10^7, to the nearest centi-kelvin
CentiKelvin(temp_k) ==
    LET sh == BigShr(BigMulSmall(temp_k.mag, 100), UNIT_BITS, FALSE)
    IN  sh.q[1] + LIMB * sh.q[2] + (IF sh.guard THEN 1 ELSE 0)

\* Ea / (R * temp_k) in 1/FX, temp_ck the temperature in centi-kelvin
ArrheniusExponent(Ea, temp_ck) ==
    LET ea_over_r == (Ea * 10^4) \div R_MILLI
        num == ea_over_r * 10^4
    IN  (num \div temp_ck) * 10 + ((num % temp_ck) * 10) \div temp_ck

\* ln of the rate constant A * exp(-Ea / (R * temp_k)), in 1/FX.  The rate
\* constants themselves (1e-14 .. 1e-1) do not fit the fixed point; the code
\* only ever uses the quotient of two of them.
LnArrheniusRateConstant(Ea, lnA, temp_ck) == lnA - ArrheniusExponent(Ea, temp_ck)

\* the penalty measured from saturated air instead of the optimal humidity
HumidityFactorFromSaturation(humidity) ==
    LET rh == Max(30, Min(100, humidity))
        deviation == Abs(rh - 100)
    IN  Exp(-((2 * Pow12(deviation)) \div 100))

\* exp(-0.02 * |clamp(humidity, 30, 100) - OPTIMAL_RH| ** 1.2) in 1/FX
HumidityFactor(humidity) ==
    LET rh == Max(30, Min(100, humidity))
        deviation == Abs(rh - OPTIMAL_RH)
    IN  Exp(-((2 * Pow12(deviation)) \div 100))

\* the quotient of the rate constants inverted: k_input / k_ref
ArrheniusDaysInverted(params, temp_k, humidity) ==
    LET ln_k_input == LnArrheniusRateConstant(params.Ea, params.lnA,
                                              CentiKelvin(temp_k))
        ln_k_ref == LnArrheniusRateConstant(params.Ea, params.lnA,
                                            CentiKelvin(T_REF_K))
        ratio == Exp(ln_k_input - ln_k_ref)
        rh_adj == HumidityFactor(humidity)
    IN  MulFx(params.ref_life_days * ratio, rh_adj) \div (FX \div CD)

\* ref_life_days * (k_ref / k_input) * rh_adj in centi-days, for a fruit of
\* KINETIC_DATA at temp_k kelvin, temp_k a double above 0.  The two rate
\* constants are taken at the centi-kelvin nearest to temp_k and to T_REF_K;
\* with temp_k = T_REF_K they are one value and the quotient is exactly 1.
ArrheniusDays(params, temp_k, humidity) ==
    LET ln_k_input == LnArrheniusRateConstant(params.Ea, params.lnA,
                                              CentiKelvin(temp_k))
        ln_k_ref == LnArrheniusRateConstant(params.Ea, params.lnA,
                                            CentiKelvin(T_REF_K))
        ratio == Exp(ln_k_ref - ln_k_input)
        rh_adj == HumidityFactor(humidity)
    IN  MulFx(params.ref_life_days * ratio, rh_adj) \div (FX \div CD)

\* an unknown fruit silently given the apple parameters
ArrheniusPredictionDefault(fruit, temp_c, humidity) ==
    LET params == KineticGet(fruit)
    IN  [ok |-> TRUE,
         value |-> ArrheniusDays(IF IsNone(params) THEN KINETIC_DATA[APPLE] ELSE Val(params),
                                 ToKelvin(temp_c), humidity)]

\* _arrhenius_prediction at temp_c degrees, a double not below -273.15:
\* raises ValueError for a fruit without parameters, and ZeroDivisionError in
\* -Ea / (R * temp_k) when temp_c + 273.15 is 0.0
ArrheniusAtKelvin(fruit, temp_k, humidity) ==
    IF IsNone(KineticGet(fruit))
    THEN [ok |-> FALSE, error |-> "ValueError: unsupported product type"]
    ELSE IF BigIsZero(temp_k.mag)
    THEN [ok |-> FALSE, error |-> "ZeroDivisionError: float division by zero"]
    ELSE [ok |-> TRUE,
          value |-> ArrheniusDays(Val(KineticGet(fruit)), temp_k, humidity)]

ArrheniusPrediction(fruit, temp_c, humidity) ==
    ArrheniusAtKelvin(fruit, ToKelvin(temp_c), humidity)

\* ------------------------------------------------------------ alpha logic
\* r.get(key, fallback) of one reading
ReadingGet(field, fallback) == IF IsNone(field) THEN fallback ELSE Val(field)

\* the single-reading guard left out: one reading has no spread
AssessSensorStabilityNoSingleGuard(readings, fallback_temp, fallback_humidity) ==
    IF readings = <<>> THEN SCORE \div 2
    ELSE LET temps == [i \in 1..Len(readings) |->
                          ReadingGet(readings[i].temperature, fallback_temp)]
             hums == [i \in 1..Len(readings) |->
                          ReadingGet(readings[i].humidity, fallback_humidity)]
             temp_cv == CoefficientOfVariation(temps)
             hum_cv == CoefficientOfVariation(hums)
             temp_score == Max(0, SCORE - temp_cv * 10)
             hum_score == Max(0, SCORE - hum_cv * 5)
         IN  (temp_score + hum_score) \div 2

\* _assess_sensor_stability, in 1/SCORE
AssessSensorStability(readings, fallback_temp, fallback_humidity) ==
    IF readings = <<>> THEN SCORE \div 2
    ELSE LET temps == [i \in 1..Len(readings) |->
                          ReadingGet(readings[i].temperature, fallback_temp)]
             hums == [i \in 1..Len(readings) |->
                          ReadingGet(readings[i].humidity, fallback_humidity)]
         IN  IF Len(temps) < 2 THEN (6 * SCORE) \div 10
             ELSE LET temp_cv == CoefficientOfVariation(temps)
                      hum_cv == CoefficientOfVariation(hums)
                      temp_score == Max(0, SCORE - temp_cv * 10)
                      hum_score == Max(0, SCORE - hum_cv * 5)
                  IN  (temp_score + hum_score) \div 2

\* Python truthiness of entry.get("actual_shelf_life")
Truthy(o) == ~IsNone(o) /\ Val(o) # 0

\* max(0.0, 1 - abs(actual - predicted) / max(actual, 1e-6)) in 1/SCORE;
\* actual in centi-days, predicted (a hybrid prediction) in 1/(ALPHA*CD) day
AccuracyScore(actual, predicted) ==
    LET diff == Abs(actual * ALPHA - predicted)
    IN  IF actual > 0 THEN Max(0, SCORE - diff \div (actual * (ALPHA \div SCORE)))
        ELSE IF diff = 0 THEN SCORE ELSE 0

\* the accuracy scores of the validated tier: the last 20 entries with a
\* truthy actual_shelf_life, those with a truthy hybrid_prediction scored
ValidatedScores(history) ==
    LET validated == SelectSeq(history, LAMBDA h : Truthy(h.actual_shelf_life))
        scored == SelectSeq(LastN(validated, 20), LAMBDA h : h.hybrid_prediction # 0)
    IN  [i \in 1..Len(scored) |->
            AccuracyScore(Val(scored[i].actual_shelf_life), scored[i].hybrid_prediction)]

\* the consistency returned without the clamp to [0, 1]
ConsistencyScoreUnclamped(history) ==
    LET recent == LastN(history, 10)
        preds == [i \in 1..Len(recent) |-> recent[i].ml_prediction]
    IN  IF Len(preds) > 1
        THEN SCORE - CoefficientOfVariation(preds)
        ELSE SCORE \div 2

\* the consistency taken over the whole history instead of the last 10 entries
ConsistencyScoreWholeHistory(history) ==
    LET preds == [i \in 1..Len(history) |-> history[i].ml_prediction]
    IN  IF Len(preds) > 1
        THEN Max(0, Min(SCORE, SCORE - CoefficientOfVariation(preds)))
        ELSE SCORE \div 2

\* the consistency granted only from three predictions on
ConsistencyScoreFromThree(history) ==
    LET recent == LastN(history, 10)
        preds == [i \in 1..Len(recent) |-> recent[i].ml_prediction]
    IN  IF Len(preds) > 2
        THEN Max(0, Min(SCORE, SCORE - CoefficientOfVariation(preds)))
        ELSE SCORE \div 2

\* the self-consistency tier: 1 - cv of the ml_prediction of the last 10
\* entries (predict writes the key into every entry), clamped to [0, 1]
ConsistencyScore(history) ==
    LET recent == LastN(history, 10)
        preds == [i \in 1..Len(recent) |-> recent[i].ml_prediction]
    IN  IF Len(preds) > 1
        THEN Max(0, Min(SCORE, SCORE - CoefficientOfVariation(preds)))
        ELSE SCORE \div 2

\* a history without evidence scored as a perfect record
AssessMlPerformanceOptimistic(history) ==
    IF history = <<>> THEN SCORE
    ELSE LET scores == ValidatedScores(history)
         IN  IF scores # <<>> THEN SumSeq(scores) \div Len(scores)
             ELSE ConsistencyScore(history)

\* _assess_ml_performance, in 1/SCORE
AssessMlPerformance(history) ==
    IF history = <<>> THEN SCORE \div 2
    ELSE LET scores == ValidatedScores(history)
         IN  IF scores # <<>> THEN SumSeq(scores) \div Len(scores)
             ELSE ConsistencyScore(history)

\* the computed weight returned without the configured bounds
CalculateAlphaUnclamped(sensor_stability, ml_performance, alpha_override) ==
    IF ~IsNone(alpha_override) THEN Max(0, Min(ALPHA, Val(alpha_override)))
    ELSE ALPHA_BASE
         + ((sensor_stability - SCORE \div 2) * SENSOR_WEIGHT_PCT) \div 10
         - ((ml_performance - SCORE \div 2) * ML_WEIGHT_PCT) \div 10

\* the weight started from the neutral 0.5 instead of the configured base
CalculateAlphaNeutralBase(sensor_stability, ml_performance, alpha_override) ==
    IF ~IsNone(alpha_override) THEN Max(0, Min(ALPHA, Val(alpha_override)))
    ELSE LET alpha == ALPHA \div 2
                      + ((sensor_stability - SCORE \div 2) * SENSOR_WEIGHT_PCT) \div 10
                      - ((ml_performance - SCORE \div 2) * ML_WEIGHT_PCT) \div 10
         IN  Max(ALPHA_MIN, Min(ALPHA_MAX, alpha))

\* _calculate_alpha in binary64 with the two weights exchanged
CalculateAlphaDoubleWeightsSwapped(sensor_stability, ml_performance, alpha_override) ==
    IF ~IsNone(alpha_override)
    THEN WideMax(WideZero, WideMin(WideOfWhole(1), Val(alpha_override)))
    ELSE LET raised == WideAdd(WideOfRatio(35, 100),
                               WideMul(WideSub(sensor_stability, WideOfBinary(1, 1)),
                                       WideOfRatio(40, 100)))
             alpha == WideSub(raised,
                              WideMul(WideSub(ml_performance, WideOfBinary(1, 1)),
                                      WideOfRatio(30, 100)))
         IN  WideMax(WideOfRatio(10, 100), WideMin(WideOfRatio(80, 100), alpha))

\* _calculate_alpha bit for bit: the scores and the override are doubles, a
\* score being 0.5 or at least 2^-53 away from it; the literals 0.35, 0.30,
\* 0.40, 0.1 and 0.8 of ALPHA_CONFIG are the doubles nearest to them, and
\* each of the two subtractions, the two products, the addition and the
\* subtraction of lines 156-157 rounds
CalculateAlphaDouble(sensor_stability, ml_performance, alpha_override) ==
    IF ~IsNone(alpha_override)
    THEN WideMax(WideZero, WideMin(WideOfWhole(1), Val(alpha_override)))
    ELSE LET raised == WideAdd(WideOfRatio(35, 100),
                               WideMul(WideSub(sensor_stability, WideOfBinary(1, 1)),
                                       WideOfRatio(30, 100)))
             alpha == WideSub(raised,
                              WideMul(WideSub(ml_performance, WideOfBinary(1, 1)),
                                      WideOfRatio(40, 100)))
         IN  WideMax(WideOfRatio(10, 100), WideMin(WideOfRatio(80, 100), alpha))

\* _calculate_alpha to the nearest 1/ALPHA, on scores in 1/SCORE; the
\* override is None or Some(value in 1/ALPHA).  The calls of predict are
\* followed at this resolution; CalculateAlphaDouble is the same function to
\* the last bit.
CalculateAlpha(sensor_stability, ml_performance, alpha_override) ==
    IF ~IsNone(alpha_override) THEN Max(0, Min(ALPHA, Val(alpha_override)))
    ELSE LET alpha == ALPHA_BASE
                      + ((sensor_stability - SCORE \div 2) * SENSOR_WEIGHT_PCT) \div 10
                      - ((ml_performance - SCORE \div 2) * ML_WEIGHT_PCT) \div 10
         IN  Max(ALPHA_MIN, Min(ALPHA_MAX, alpha))

\* ------------------------------------------------------------ ML prediction
TEMPERATURE_C == <<"T","e","m","p","e","r","a","t","u","r","e","_","C">>
HUMIDITY_PCT == <<"H","u","m","i","d","i","t","y","_","%">>
TYPE_PREFIX == <<"T","y","p","e","_">>

\* the value of one column of the one-row frame after
\* df.reindex(columns=feature_columns, fill_value=0)
FeatureValue(column, fruit, temp_c, humidity) ==
    IF column = TEMPERATURE_C THEN temp_c
    ELSE IF column = HUMIDITY_PCT THEN humidity
    ELSE IF StrStartsWith(column, TYPE_PREFIX)
    THEN (IF column = TYPE_PREFIX \o StrCapitalize(fruit) THEN 1 ELSE 0)
    ELSE 0

FeatureRow(feature_columns, fruit, temp_c, humidity) ==
    [i \in 1..Len(feature_columns) |->
        FeatureValue(feature_columns[i], fruit, temp_c, humidity)]

RECURSIVE Dot(_, _)
Dot(coef, row) ==
    IF row = <<>> THEN 0 ELSE Head(coef) * Head(row) + Dot(Tail(coef), Tail(row))

\* self.model.predict(df)[0]: the loaded regressor is a deterministic function
\* of the feature row, here a linear one, in centi-days
ModelPredict(model, row) == model.intercept + Dot(model.coef, row)

\* _ml_prediction: raises ValueError when the model has no feature_names_in_
MlPrediction(model, fruit, temp_c, humidity) ==
    IF ~model.has_feature_names
    THEN [ok |-> FALSE, error |-> "ValueError: model is missing feature metadata"]
    ELSE [ok |-> TRUE,
          value |-> ModelPredict(model, FeatureRow(model.feature_names_in_,
                                                   fruit, temp_c, humidity))]

\* ------------------------------------------------------------ history utilities
\* The history file: absent, a JSON list (kind "json": data holds its items),
\* bytes json.loads rejects (kind "unparseable": garbage, an empty or a
\* cut-off file), or a JSON text that json.loads accepts and that is no list
\* (kind "json_other": data holds the text).
AbsentFile == [kind |-> "absent", data |-> <<>>]
JsonFile(history) == [kind |-> "json", data |-> history]
UnparseableFile == [kind |-> "unparseable", data |-> <<>>]
OtherJsonTexts ==
    {"{}", "0", "null", "false", "\"\"", "7", "1.5", "true", "\"abc\"",
     "{\"entries\": []}"}
OtherJsonFile(text) == [kind |-> "json_other", data |-> text]

\* an item of a JSON list that is no object, such as 1 or null
NotARecord(python_type) == [python_type |-> python_type]
IsRecord(item) == "python_type" \notin DOMAIN item

\* json.loads of a text that is no list: the value's Python type, its truth
\* value, and the type of what iterating it yields (None: not iterable)
JsonLoads(text) ==
    CASE text = "{}"     -> [python_type |-> "dict", truthy |-> FALSE, item_type |-> Some("str")]
      [] text = "0"      -> [python_type |-> "int", truthy |-> FALSE, item_type |-> None]
      [] text = "null"   -> [python_type |-> "NoneType", truthy |-> FALSE, item_type |-> None]
      [] text = "false"  -> [python_type |-> "bool", truthy |-> FALSE, item_type |-> None]
      [] text = "\"\""   -> [python_type |-> "str", truthy |-> FALSE, item_type |-> Some("str")]
      [] text = "7"      -> [python_type |-> "int", truthy |-> TRUE, item_type |-> None]
      [] text = "1.5"    -> [python_type |-> "float", truthy |-> TRUE, item_type |-> None]
      [] text = "true"   -> [python_type |-> "bool", truthy |-> TRUE, item_type |-> None]
      [] text = "\"abc\"" -> [python_type |-> "str", truthy |-> TRUE, item_type |-> Some("str")]
      [] text = "{\"entries\": []}"
                         -> [python_type |-> "dict", truthy |-> TRUE, item_type |-> Some("str")]

\* _load_history: [] for a missing file and for any exception while reading,
\* otherwise whatever json.loads returned, a list or not
LoadHistory(f) ==
    IF f.kind = "json" THEN f.data
    ELSE IF f.kind = "json_other" THEN JsonLoads(f.data)
    ELSE <<>>

\* the window taken from the wrong end: history[:history_limit]
SavePayloadOldest(history) == SubSeq(history, 1, Min(Len(history), HISTORY_LIMIT))

\* the payload _save_history serialises: history[-history_limit:]
SavePayload(history) == LastN(history, HISTORY_LIMIT)

\* _save_history, the file once write_text has completed
SaveHistory(history) == JsonFile(SavePayload(history))

\* the stored entries rewritten in the shape of a fresh entry: their
\* annotations are lost
AppendHistoryUnannotated(f, entry) ==
    SaveHistory(Append([i \in 1..Len(LoadHistory(f)) |->
                           [LoadHistory(f)[i] EXCEPT !.actual_shelf_life = None]],
                       entry))

\* the file rewritten with the new entry alone
AppendHistoryAlone(f, entry) == SaveHistory(<<entry>>)

\* history.append(entry) raises AttributeError: only a list has append
AppendRaises(f) == f.kind = "json_other"

\* _append_history, the file once it has completed or raised; when
\* history.append raises, nothing is written
AppendHistory(f, entry) ==
    IF AppendRaises(f) THEN f ELSE SaveHistory(Append(LoadHistory(f), entry))

\* ------------------------------------------------------------ public API
\* the weights applied to the wrong sub-models
BlendSwapped(alpha, arr_pred, ml_pred) == (ALPHA - alpha) * arr_pred + alpha * ml_pred

\* alpha * arr_pred + (1 - alpha) * ml_pred, in 1/(ALPHA*CD) day
Blend(alpha, arr_pred, ml_pred) == alpha * arr_pred + (ALPHA - alpha) * ml_pred

\* the end of predict, from the blend to the entry and the returned dict, given
\* what the lines before it computed.  calls lists the sub-models invoked, in
\* order.
PredictFrom(in, fruit, sensor_stability, ml_performance, alpha, ml, arr) ==
    IF ~ml.ok THEN [ok |-> FALSE, error |-> ml.error, calls |-> <<>>]
    ELSE IF ~arr.ok
    THEN [ok |-> FALSE, error |-> arr.error, calls |-> <<"model.predict">>]
    ELSE [ok |-> TRUE,
          calls |-> <<"model.predict", "arrhenius_rate_constant">>,
          entry |-> [batch_id |-> in.batch_id,
                     fruit |-> fruit,
                     temperature |-> in.temperature_c,
                     humidity |-> in.humidity_percent,
                     ml_prediction |-> ml.value,
                     arrhenius_prediction |-> arr.value,
                     hybrid_prediction |-> Blend(alpha, arr.value, ml.value),
                     alpha_used |-> alpha,
                     sensor_samples |-> Len(in.sensor_readings),
                     actual_shelf_life |-> None],
          result |-> [ml_prediction |-> ml.value,
                      arrhenius_prediction |-> arr.value,
                      hybrid_prediction |-> Blend(alpha, arr.value, ml.value),
                      alpha_used |-> alpha,
                      sensor_temperature |-> in.temperature_c,
                      sensor_humidity |-> in.humidity_percent,
                      sensor_samples |-> Len(in.sensor_readings),
                      sensor_stability |-> sensor_stability,
                      ml_performance |-> ml_performance]]

\* predict from the weight on: alpha, then the ML and the Arrhenius prediction
PredictWith(model, in, fruit, sensor_stability, ml_performance) ==
    PredictFrom(in, fruit, sensor_stability, ml_performance,
                CalculateAlpha(sensor_stability, ml_performance, in.alpha_override),
                MlPrediction(model, fruit, in.temperature_c, in.humidity_percent),
                ArrheniusPrediction(fruit, WideOfWhole(in.temperature_c),
                                    in.humidity_percent))

\* the track record taken from the entries of the caller's own batch only
PredictComputePerBatch(history, model, in) ==
    PredictWith(model, in, StrLower(StrStrip(in.product_type)),
                AssessSensorStability(in.sensor_readings,
                                      in.temperature_c, in.humidity_percent),
                AssessMlPerformance(
                    SelectSeq(history, LAMBDA h : h.batch_id = in.batch_id)))

\* predict up to and including the construction of the history entry: the
\* fruit, the two assessments, then the rest
PredictCompute(history, model, in) ==
    PredictWith(model, in, StrLower(StrStrip(in.product_type)),
                AssessSensorStability(in.sensor_readings,
                                      in.temperature_c, in.humidity_percent),
                AssessMlPerformance(history))

\* a call that raises error after the sub-models in calls: nothing returned,
\* the file as it was
Failed(f, in, error, calls) ==
    [status |-> "raised", error |-> error, calls |-> calls,
     result |-> None, entry |-> None,
     input |-> in, before |-> f, after |-> f]

\* a call that raises after a stub entry was stored
RaisedAfterStub(f, in, c) ==
    [status |-> "raised", error |-> c.error, calls |-> c.calls,
     result |-> None, entry |-> None, input |-> in, before |-> f,
     after |-> AppendHistory(f,
                  [batch_id |-> in.batch_id,
                   fruit |-> StrLower(StrStrip(in.product_type)),
                   temperature |-> in.temperature_c, humidity |-> in.humidity_percent,
                   ml_prediction |-> 0, arrhenius_prediction |-> 0,
                   hybrid_prediction |-> 0, alpha_used |-> 0,
                   sensor_samples |-> Len(in.sensor_readings),
                   actual_shelf_life |-> None])]

\* the call that got to its sub-predictions with outcome c
LoggedFirst(f, in, c) ==
    IF c.ok
    THEN [status |-> "returned", error |-> "", calls |-> c.calls,
          result |-> Some(c.result), entry |-> Some(c.entry),
          input |-> in, before |-> f, after |-> AppendHistory(f, c.entry)]
    ELSE RaisedAfterStub(f, in, c)

\* the call logged before its sub-predictions are made: an entry is stored
\* even when the call raises
PredictOutcomeLogFirst(f, model, in) ==
    LoggedFirst(f, in, PredictCompute(LoadHistory(f), model, in))

\* the index of the first item of history that is no dict
FirstNonRecord(history) ==
    CHOOSE i \in 1..Len(history) :
        /\ ~IsRecord(history[i])
        /\ \A j \in 1..(i - 1) : IsRecord(history[j])

\* predict on the file f whose loaded value is history, c being what the call
\* computes once _assess_ml_performance has accepted that value
OutcomeOf(f, in, history, c) ==
    IF f.kind = "json_other" /\ history.truthy /\ IsNone(history.item_type)
    THEN Failed(f, in, "TypeError: '" \o history.python_type
                           \o "' object is not iterable", <<>>)
    ELSE IF f.kind = "json_other" /\ history.truthy
    THEN Failed(f, in, "AttributeError: '" \o Val(history.item_type)
                           \o "' object has no attribute 'get'", <<>>)
    ELSE IF f.kind = "json" /\ \E i \in 1..Len(history) : ~IsRecord(history[i])
    THEN Failed(f, in, "AttributeError: '"
                           \o history[FirstNonRecord(history)].python_type
                           \o "' object has no attribute 'get'", <<>>)
    ELSE IF c.ok /\ AppendRaises(f)
    THEN Failed(f, in, "AttributeError: '" \o history.python_type
                           \o "' object has no attribute 'append'", c.calls)
    ELSE IF c.ok
    THEN [status |-> "returned", error |-> "", calls |-> c.calls,
          result |-> Some(c.result), entry |-> Some(c.entry),
          input |-> in, before |-> f, after |-> AppendHistory(f, c.entry)]
    ELSE Failed(f, in, c.error, c.calls)

\* predict as one call on the history file f: what the caller gets (status,
\* error, result), the sub-models invoked, and the file it leaves.
\* _assess_ml_performance runs before any sub-model is called: a falsy loaded
\* value is "not history" (0.5, as for []); a truthy one is iterated, which
\* raises TypeError on a number, and each item is asked .get, which raises
\* AttributeError on an item that is no dict.  _append_history runs last.
PredictOutcome(f, model, in) ==
    OutcomeOf(f, in, LoadHistory(f),
              PredictCompute(IF f.kind = "json_other" THEN <<>> ELSE LoadHistory(f),
                             model, in))

\* ------------------------------------------------------------ the model's inputs
MaxCalls == 2
NumHandlers == 2
Handlers == 1..NumHandlers

APPLE_RAW == <<" ","\\xa0","A","p","p","L","E","\f","\r","\n">>
\* '\u212aIWI' (a KELVIN SIGN first), which lower() makes 'kiwi'
KIWI == <<"\\u212a","I","W","I">>
ProductTypes == {APPLE_RAW, BANANA, KIWI}
Temperatures == {T_REF_C, 25}

Reading(t, h) == [temperature |-> Some(t), humidity |-> Some(h)]
\* no readings; one reading; identical readings; swinging readings; readings
\* of a freezer (negative mean temperature); a reading without values
ReadingWindows ==
    { <<>>,
      <<Reading(5, 90)>>,
      <<Reading(5, 90), Reading(5, 90)>>,
      <<Reading(5, 90), Reading(25, 30)>>,
      <<Reading(-20, 80), Reading(-10, 85)>>,
      <<Reading(4, 88), [temperature |-> None, humidity |-> None], Reading(6, 92)>> }
AlphaOverrides == {None, Some(3000), Some(15000), Some(-2000)}
BatchIds == {None, Some("BATCH-1"), Some("BATCH-2")}

BaseInput ==
    [product_type |-> APPLE_RAW, temperature_c |-> T_REF_C,
     humidity_percent |-> OPTIMAL_RH, sensor_readings |-> <<>>,
     alpha_override |-> None, batch_id |-> None]

\* the calls the model makes: every product at every temperature, a dry room,
\* every reading window without and with an out-of-range override, every
\* override, every batch id
Inputs ==
    { [BaseInput EXCEPT !.product_type = p, !.temperature_c = t] :
          p \in ProductTypes, t \in Temperatures }
    \cup { [BaseInput EXCEPT !.humidity_percent = 60] }
    \cup { [BaseInput EXCEPT !.sensor_readings = w, !.alpha_override = o] :
          w \in ReadingWindows, o \in {None, Some(15000)} }
    \cup { [BaseInput EXCEPT !.alpha_override = o] : o \in AlphaOverrides }
    \cup { [BaseInput EXCEPT !.batch_id = b] : b \in BatchIds }

TYPE_APPLE == TYPE_PREFIX \o <<"A","p","p","l","e">>
TYPE_BANANA == TYPE_PREFIX \o <<"B","a","n","a","n","a">>
TYPE_MANGO == TYPE_PREFIX \o <<"M","a","n","g","o">>

\* the regressors a deployment may load: a plausible one, one whose columns
\* are ordered differently and whose predictions go negative, and one saved
\* without feature_names_in_
Model1 ==
    [has_feature_names |-> TRUE,
     feature_names_in_ |-> <<TEMPERATURE_C, HUMIDITY_PCT, TYPE_APPLE, TYPE_BANANA, TYPE_MANGO>>,
     intercept |-> 1000, coef |-> <<-20, 2, 3000, 200, 100>>]
Model2 ==
    [has_feature_names |-> TRUE,
     feature_names_in_ |-> <<TYPE_BANANA, TYPE_APPLE, HUMIDITY_PCT, TEMPERATURE_C>>,
     intercept |-> -300, coef |-> <<100, 500, 0, -10>>]
Model3 ==
    [has_feature_names |-> FALSE, feature_names_in_ |-> <<>>,
     intercept |-> 1000, coef |-> <<>>]
Models == {Model1, Model2, Model3}

\* the scripted calls that fill the history before the calls the model chooses
\* freely: call i of the script
ScriptInput(i) ==
    CASE i % 3 = 0 -> [BaseInput EXCEPT !.batch_id = Some("BATCH-1")]
      [] i % 3 = 1 -> [BaseInput EXCEPT !.temperature_c = 25, !.humidity_percent = 60]
      [] OTHER     -> [BaseInput EXCEPT !.temperature_c = 25,
                                        !.sensor_readings = <<Reading(5, 90), Reading(25, 30)>>]
ScriptLengths == {0, 3, HISTORY_LIMIT - 1, HISTORY_LIMIT}

\* external curation: the entries of a history annotated with the shelf life
\* observed, every entry (rule "all") or every second one (rule "odd")
CurationRules == {"all", "odd"}
ActualFor(rule, i) ==
    IF rule = "all" THEN Some(5000)
    ELSE IF i % 2 = 1 THEN Some(900) ELSE None
Curated(history, rule) ==
    [i \in 1..Len(history) |->
        [history[i] EXCEPT !.actual_shelf_life = ActualFor(rule, i)]]

\* ------------------------------------------------------------ state
VARIABLES
    model,      \* the regressor loaded by __init__
    file,       \* the history file at history_path
    outcome,    \* what the last sequential predict call did
    script,     \* scripted calls still to make
    ncalls,     \* freely chosen predict calls made so far
    curated,    \* whether the history has been annotated
    pc,         \* per request handler: where it stands
    local,      \* per request handler: its call and what it returned
    probe,      \* direct calls of a helper of the predictor: where they stand
    market,     \* MarketplaceService._state and its payment client
    registry    \* SensorRegistry._state

vars == <<model, file, outcome, script, ncalls, curated, pc, local, probe, market, registry>>

NoOutcome ==
    [status |-> "none", error |-> "", calls |-> <<>>, result |-> None,
     entry |-> None, input |-> BaseInput, before |-> AbsentFile, after |-> AbsentFile]
NoLocal ==
    [input |-> BaseInput, result |-> None, entry |-> None, waiting |-> {},
     seen |-> AbsentFile, history |-> <<>>]
NoProbe == [status |-> "none"]
\* MarketplaceService._state on a fresh state path: the dicts parents,
\* requests and payments are sequences, the uuid or order id of a record
\* being its position; client tells whether a Razorpay client is configured
NoMarket == [parents |-> <<>>, requests |-> <<>>, payments |-> <<>>, client |-> FALSE]
\* the registry's three dicts, a missing key shown as None: sensors by id,
\* sensorLinks by sensor id, batchLinks by batch id and location type
SensorIds == {"SENSOR-1", "SENSOR-2"}
LinkedBatchIds == {"BATCH-1", "BATCH-2"}
LocationTypes == {"transporter", "retailer"}
NoRegistry ==
    [sensors |-> [s \in SensorIds |-> None],
     sensorLinks |-> [s \in SensorIds |-> None],
     batchLinks |-> [b \in LinkedBatchIds |-> [t \in LocationTypes |-> None]]]

\* a predictor constructed on a fresh history path
Init ==
    /\ model = Model1
    /\ file = AbsentFile
    /\ outcome = NoOutcome
    /\ script \in ScriptLengths
    /\ ncalls = 0
    /\ curated = FALSE
    /\ pc = [t \in Handlers |-> "idle"]
    /\ local = [t \in Handlers |-> NoLocal]
    /\ market = NoMarket
    /\ registry = NoRegistry
    /\ probe = NoProbe

\* ------------------------------------------------------------ sequential calls
\* one predict call, start to finish
Call(in) ==
    /\ outcome' = PredictOutcome(file, model, in)
    /\ file' = outcome'.after
    /\ UNCHANGED <<model, curated, pc, local, probe, market, registry>>

ScriptedPredict ==
    /\ script > 0
    /\ Call(ScriptInput(script))
    /\ script' = script - 1
    /\ UNCHANGED ncalls

Predict(in) ==
    /\ script = 0
    /\ ncalls < MaxCalls
    /\ Call(in)
    /\ ncalls' = ncalls + 1
    /\ UNCHANGED script

\* the service is restarted with another model file: __init__ / _load_model
Restart(m) ==
    /\ script = 0
    /\ ncalls = 0
    /\ m # model
    /\ model' = m
    /\ outcome' = NoOutcome
    /\ UNCHANGED <<file, script, ncalls, curated, pc, local, probe, market, registry>>

\* the stored entries are annotated outside the program
CurateHistory(rule) ==
    /\ script = 0
    /\ ncalls = 0
    /\ ~curated
    /\ file.kind = "json"
    /\ file' = JsonFile(Curated(file.data, rule))
    /\ curated' = TRUE
    /\ UNCHANGED <<model, outcome, script, ncalls, pc, local, probe, market, registry>>

\* the history file is damaged outside the program
CorruptHistoryFile ==
    /\ script = 0
    /\ file.kind = "json"
    /\ file' = UnparseableFile
    /\ UNCHANGED <<model, outcome, script, ncalls, curated, pc, local, probe, market, registry>>

Next ==
    \/ ScriptedPredict
    \/ \E in \in Inputs : Predict(in)
    \/ \E m \in Models : Restart(m)
    \/ \E rule \in CurationRules : CurateHistory(rule)
    \/ CorruptHistoryFile

Spec == Init /\ [][Next]_vars

\* ------------------------------------------------------------ storage faults
\* a predict call killed inside write_text, after open(mode "w") has truncated
\* the file and before the payload is flushed
PredictInterrupted(in) ==
    /\ script = 0
    /\ ncalls < MaxCalls
    /\ \E c \in {PredictCompute(LoadHistory(file), model, in)} :
        /\ c.ok
        /\ file' = UnparseableFile
        /\ outcome' = [status |-> "interrupted", error |-> "", calls |-> c.calls,
                       result |-> None, entry |-> Some(c.entry), input |-> in,
                       before |-> file, after |-> AppendHistory(file, c.entry)]
        /\ ncalls' = ncalls + 1
        /\ UNCHANGED <<model, script, curated, pc, local, probe, market, registry>>

\* a predict call whose write_text raises OSError: at open (file untouched) or
\* after the truncation (full disk)
PredictWriteFails(in, truncated) ==
    /\ script = 0
    /\ ncalls < MaxCalls
    /\ \E c \in {PredictCompute(LoadHistory(file), model, in)} :
        /\ c.ok
        /\ file' = IF truncated THEN UnparseableFile ELSE file
        /\ outcome' = [status |-> "raised", error |-> "OSError", calls |-> c.calls,
                       result |-> None, entry |-> None, input |-> in,
                       before |-> file, after |-> file']
        /\ ncalls' = ncalls + 1
        /\ UNCHANGED <<model, script, curated, pc, local, probe, market, registry>>

NextFault ==
    \/ Next
    \/ \E in \in Inputs : PredictInterrupted(in)
    \/ \E in \in Inputs, truncated \in BOOLEAN : PredictWriteFails(in, truncated)

SpecFault == Init /\ [][NextFault]_vars

\* ------------------------------------------------------------ concurrent requests
\* Requests to /ml/shelf-life served at the same time.  main.py runs one
\* uvicorn process whose handlers are coroutines of one event loop: a handler
\* gives way to the others only at an await, and predict is an ordinary call
\* with no await in it, so it runs from its load to its save before any
\* other handler runs.  Each request carries its own batch id.
HandlerBatchIds == <<"REQUEST-1", "REQUEST-2", "REQUEST-3", "REQUEST-4">>
HandlerInputs(t) ==
    { [BaseInput EXCEPT !.product_type = p, !.batch_id = Some(HandlerBatchIds[t])] :
          p \in {APPLE_RAW, KIWI} }

\* The request handlers of main.py are coroutines (async def) of the one
\* event loop of the process: a handler that has been resumed runs until its
\* next await or its return, and no other handler runs meanwhile.  predict,
\* called at lines 476, 517 and 1007, is a plain function holding no await
\* and no lock: a handler at one of the positions inside it holds the loop.
\* The positions of a handler: idle, resolved (suspended at await
\* _resolve_environmental_context, line 992), loaded (after line 185),
\* computed (the entry built, line 204), appending (the stored history read
\* again and the entry appended, lines 81-82), returned, raised.
HoldsLoopNever(position) == FALSE

HoldsLoop(position) == position \in {"loaded", "computed", "appending"}

\* may handler t take a step?  Not while another handler holds the loop.
MayRun(t) == \A u \in Handlers \ {t} : ~HoldsLoop(pc[u])

\* the handler is started and runs to await _resolve_environmental_context
\* (...), holding the arguments of its call; the other handlers may run
\* before it goes on
HandlerResolve(t, in) ==
    /\ script = 0
    /\ pc[t] = "idle"
    /\ MayRun(t)
    /\ pc' = [pc EXCEPT ![t] = "resolved"]
    /\ local' = [local EXCEPT ![t].input = in]
    /\ UNCHANGED <<model, file, outcome, script, ncalls, curated, probe, market, registry>>

\* the handler is resumed and enters predict: history = self._load_history()
\* (line 185) reads the file; waiting are the handlers suspended meanwhile
HandlerLoad(t) ==
    /\ pc[t] = "resolved"
    /\ MayRun(t)
    /\ pc' = [pc EXCEPT ![t] = "loaded"]
    /\ local' = [local EXCEPT ![t].seen = file,
                              ![t].waiting = {u \in Handlers : u # t /\ pc[u] = "resolved"}]
    /\ UNCHANGED <<model, file, outcome, script, ncalls, curated, probe, market, registry>>

\* lines 186-204 on the history that was loaded: the call raises, or its
\* result and its entry are built
HandlerCompute(t) ==
    /\ pc[t] = "loaded"
    /\ MayRun(t)
    /\ \E o \in {PredictOutcome(local[t].seen, model, local[t].input)} :
          /\ pc' = [pc EXCEPT ![t] = IF o.status = "raised" THEN "raised" ELSE "computed"]
          /\ local' = [local EXCEPT ![t].result = o.result, ![t].entry = o.entry]
    /\ UNCHANGED <<model, file, outcome, script, ncalls, curated, probe, market, registry>>

\* _append_history, lines 81-82: the file is read again and the entry
\* appended to what it holds now
HandlerAppend(t) ==
    /\ pc[t] = "computed"
    /\ MayRun(t)
    /\ pc' = [pc EXCEPT ![t] = "appending"]
    /\ local' = [local EXCEPT ![t].history = Append(LoadHistory(file), Val(local[t].entry))]
    /\ UNCHANGED <<model, file, outcome, script, ncalls, curated, probe, market, registry>>

\* _append_history, line 83: the appended history is saved and predict
\* returns
HandlerSave(t) ==
    /\ pc[t] = "appending"
    /\ MayRun(t)
    /\ file' = SaveHistory(local[t].history)
    /\ pc' = [pc EXCEPT ![t] = "returned"]
    /\ UNCHANGED <<model, outcome, local, script, ncalls, curated, probe, market, registry>>

NextConc ==
    \/ ScriptedPredict
    \/ \E t \in Handlers : \E in \in HandlerInputs(t) : HandlerResolve(t, in)
    \/ \E t \in Handlers : HandlerLoad(t)
    \/ \E t \in Handlers : HandlerCompute(t)
    \/ \E t \in Handlers : HandlerAppend(t)
    \/ \E t \in Handlers : HandlerSave(t)

SpecConc == Init /\ [][NextConc]_vars

\* ------------------------------------------------------------ the assessors on stored histories
\* The history file outlives the process and is annotated outside it, so a
\* predictor starts on whatever earlier deployments and the curation left.
\* One stored entry, as predict writes it for apple at the reference
\* conditions with weight alpha and the two sub-predictions, annotated with
\* actual (None when not annotated).
EntryOf(alpha, arr_pred, ml_pred, actual) ==
    [batch_id |-> None, fruit |-> APPLE,
     temperature |-> T_REF_C, humidity |-> OPTIMAL_RH,
     ml_prediction |-> ml_pred, arrhenius_prediction |-> arr_pred,
     hybrid_prediction |-> Blend(alpha, arr_pred, ml_pred),
     alpha_used |-> alpha, sensor_samples |-> 0, actual_shelf_life |-> actual]

\* entries that were never annotated, one per regressor prediction
Unvalidated(preds) ==
    [i \in 1..Len(preds) |-> EntryOf(ALPHA_BASE, 6000, preds[i], None)]

\* entries of one call (weight 0.35, kinetic 60 days, regressor 40.8 days,
\* blend 47.52 days), one per annotation
Validated(actuals) ==
    [i \in 1..Len(actuals) |-> EntryOf(ALPHA_BASE, 6000, 4080, actuals[i])]

\* an entry written by a call with alpha_override = 0 whose regressor
\* returned 0.0 (blend 0.0), later annotated with 10 days
ZeroBlendEntry == EntryOf(0, 6000, 0, Some(1000))

UnvalidatedPredictions ==
    { <<4080>>,
      <<4080, 4080>>,
      <<4080, 3680, 1160>>,
      <<-250, -50>>,
      <<-100, 100>>,
      <<0, 0>>,
      <<100, 9000>> \o [i \in 1..10 |-> 4080],
      <<4080, 4080>> \o [i \in 1..10 |-> 1000 * i] }

Annotations ==
    { <<Some(4752)>>,
      <<Some(5000), None, Some(1000)>>,
      <<None, Some(4000), None, None>>,
      [i \in 1..25 |-> IF i <= 5 THEN Some(1000) ELSE Some(4752)],
      [i \in 1..25 |-> IF i % 2 = 0 THEN Some(6000) ELSE None],
      <<Some(-100), Some(4752)>>,
      <<Some(0), Some(0)>> }

Histories ==
    { <<>> }
    \cup { Unvalidated(preds) : preds \in UnvalidatedPredictions }
    \cup { Validated(actuals) : actuals \in Annotations }
    \cup { <<ZeroBlendEntry>> \o Validated(<<Some(4752)>>),
           <<ZeroBlendEntry>> \o Unvalidated(<<4080, 3680, 1160>>),
           Unvalidated(<<100, 9000>>) \o Validated(<<Some(4752), None>>) }

\* windows of readings: none, a single one (plain, extreme, without values),
\* identical ones (also at and below zero), noisy ones
AssessWindows ==
    { <<>>,
      <<Reading(5, 90)>>,
      <<Reading(-30, 0)>>,
      <<[temperature |-> None, humidity |-> None]>>,
      <<Reading(5, 90), Reading(5, 90), Reading(5, 90)>>,
      <<Reading(-18, 45), Reading(-18, 45)>>,
      <<Reading(0, 0), Reading(0, 0)>>,
      <<Reading(4, 88), Reading(6, 92)>>,
      <<Reading(-1, 90), Reading(1, 90)>> }
Fallbacks == { <<T_REF_C, OPTIMAL_RH>>, <<25, 60>> }

AssessInputs ==
    { [BaseInput EXCEPT !.sensor_readings = w, !.temperature_c = fb[1],
                        !.humidity_percent = fb[2]] :
          w \in AssessWindows, fb \in Fallbacks }

\* a predictor constructed on a history file that already exists
InitAssess ==
    /\ model = Model1
    /\ file \in { JsonFile(h) : h \in Histories }
    /\ outcome = NoOutcome
    /\ script = 0
    /\ ncalls = 0
    /\ curated = FALSE
    /\ pc = [t \in Handlers |-> "idle"]
    /\ local = [t \in Handlers |-> NoLocal]
    /\ market = NoMarket
    /\ registry = NoRegistry
    /\ probe = NoProbe

NextAssess == \E in \in AssessInputs : Predict(in)

SpecAssess == InitAssess /\ [][NextAssess]_vars

\* ------------------------------------------------------------ identical readings in binary64
\* _assess_sensor_stability called on a window of n >= 2 readings that are
\* all the same: temperature t/10 degrees and humidity h/10 percent, as a
\* sensor reporting tenths delivers them.  np.mean and np.std sum the
\* series one element after the other; probe holds the partial sums.
WindowSizes == 2..6
TemperatureTenths == 1..60
HumidityTenths == {900, 427}

\* lines 120-124 on a window of equal readings, given the means np.mean
\* returned: is the score exactly 1.0?  np.std is 0.0 exactly when every
\* x - mean is 0.0, that is when the mean is the reading itself; then the cv
\* is 0.0 and the sub-score 1 - 0 = 1.0.  Otherwise |x - mean| is at least one
\* unit in the last place of x, hence std / (mean + 1e-6) at least 1.1e-16
\* for readings of 0.1 and more, and 1 - 10 * cv (1 - 5 * cv) is a double
\* below 1.0, as is the average with the other sub-score.
IdenticalWindowScoresOne(temperature, humidity, temp_mean, hum_mean) ==
    temp_mean = temperature /\ hum_mean = humidity

InitFloat ==
    /\ model = Model1
    /\ file = AbsentFile
    /\ outcome = NoOutcome
    /\ script = 0
    /\ ncalls = 0
    /\ curated = FALSE
    /\ pc = [t \in Handlers |-> "idle"]
    /\ local = [t \in Handlers |-> NoLocal]
    /\ market = NoMarket
    /\ registry = NoRegistry
    /\ \E n \in WindowSizes, t \in TemperatureTenths, h \in HumidityTenths :
          probe = [status |-> "summing", n |-> n, k |-> 1,
                   tenths |-> <<t, h>>,
                   temperature |-> FloatOfRatio(t, 10),
                   humidity |-> FloatOfRatio(h, 10),
                   temp_sum |-> FloatOfRatio(t, 10),
                   hum_sum |-> FloatOfRatio(h, 10)]

\* np.add.reduce: the next reading is added to the two running sums
AssessIdenticalSum ==
    /\ probe.status = "summing"
    /\ probe.k < probe.n
    /\ probe' = [probe EXCEPT !.k = @ + 1,
                              !.temp_sum = FloatAdd(@, probe.temperature),
                              !.hum_sum = FloatAdd(@, probe.humidity)]
    /\ UNCHANGED <<model, file, outcome, script, ncalls, curated, pc, local,
                 market, registry>>

\* the sums divided by n, the scores formed and returned
AssessIdenticalReturn ==
    /\ probe.status = "summing"
    /\ probe.k = probe.n
    /\ LET temp_mean == FloatDivSmall(probe.temp_sum, probe.n)
           hum_mean == FloatDivSmall(probe.hum_sum, probe.n)
       IN  probe' = [status |-> "returned", n |-> probe.n,
                     tenths |-> probe.tenths,
                     temperature |-> probe.temperature,
                     humidity |-> probe.humidity,
                     temp_mean |-> temp_mean, hum_mean |-> hum_mean,
                     score_is_one |-> IdenticalWindowScoresOne(
                         probe.temperature, probe.humidity, temp_mean, hum_mean)]
    /\ UNCHANGED <<model, file, outcome, script, ncalls, curated, pc, local,
                 market, registry>>

NextFloat ==
    \/ AssessIdenticalSum
    \/ AssessIdenticalReturn

SpecFloat == InitFloat /\ [][NextFloat]_vars

\* ------------------------------------------------------------ foreign history file
\* a predictor constructed on a history path that holds JSON written by
\* something else
\* JSON lists whose items are no records: [1, 2], [null], and a list that
\* holds a string after nothing else
NonRecordLists ==
    { <<NotARecord("int"), NotARecord("int")>>,
      <<NotARecord("NoneType")>>,
      <<NotARecord("str")>> }
ForeignFiles ==
    { OtherJsonFile(text) : text \in OtherJsonTexts }
        \cup { JsonFile(items) : items \in NonRecordLists }

InitMalformed ==
    /\ model = Model1
    /\ file \in ForeignFiles
    /\ outcome = NoOutcome
    /\ script = 0
    /\ ncalls = 0
    /\ curated = FALSE
    /\ pc = [t \in Handlers |-> "idle"]
    /\ local = [t \in Handlers |-> NoLocal]
    /\ market = NoMarket
    /\ registry = NoRegistry
    /\ probe = NoProbe

NextMalformed ==
    \/ \E in \in Inputs : Predict(in)
    \/ \E m \in Models : Restart(m)

SpecMalformed == InitMalformed /\ [][NextMalformed]_vars

\* ------------------------------------------------------------ repeated calls
\* one caller repeating one predict call (a supported product, no readings,
\* no override) on a predictor that starts without history; the history is
\* persisted between the calls.  The call is followed to the nearest 1/ALPHA
\* and, where the scores are known to the last bit, in binary64.
MaxRepeats == 13

\* _assess_sensor_stability without readings: 0.5 (line 114)
NoReadingsStability == WideOfBinary(1, 1)

\* _assess_ml_performance in binary64 on a history without annotations whose
\* last 10 entries carry n times one and the same positive prediction v: 0.5
\* for fewer than two (line 145).  For 2, 4 or 8 of them the sum n * v and the
\* mean v are exact whatever v is, np.std is 0.0 and the consistency
\* 1 - 0.0 / (v + 1e-6) is 1.0 (lines 142-144).  For another n the mean can be
\* off v in the last place (np.mean([5.4] * 3) is 5.400000000000001) and the
\* score is not followed: None.
RepeatedMlPerformance(n) ==
    IF n < 2 THEN Some(WideOfBinary(1, 1))
    ELSE IF n \in {2, 4, 8} THEN Some(WideOfWhole(1))
    ELSE None
RepeatInputs ==
    { [BaseInput EXCEPT !.product_type = p, !.temperature_c = t,
                        !.humidity_percent = h] :
          p \in KINETIC_KEYS, t \in Temperatures, h \in {OPTIMAL_RH, 60} }

InitRepeat ==
    /\ model = Model1
    /\ file = AbsentFile
    /\ outcome = NoOutcome
    /\ script = 0
    /\ ncalls = 0
    /\ curated = FALSE
    /\ pc = [t \in Handlers |-> "idle"]
    /\ local = [t \in Handlers |-> NoLocal]
    /\ market = NoMarket
    /\ registry = NoRegistry
    /\ \E in \in RepeatInputs :
          probe = [status |-> "repeating", input |-> in, alpha |-> None]

\* the next call; probe.alpha is the weight the call used, as a double,
\* where its two scores are followed in binary64
RepeatPredict ==
    /\ probe.status = "repeating"
    /\ ncalls < MaxRepeats
    /\ outcome' = PredictOutcome(file, model, probe.input)
    /\ file' = outcome'.after
    /\ ncalls' = ncalls + 1
    /\ \E ml_performance \in {RepeatedMlPerformance(Min(10, Len(LoadHistory(file))))} :
          probe' = [probe EXCEPT !.alpha =
                       IF IsNone(ml_performance) THEN None
                       ELSE Some(CalculateAlphaDouble(NoReadingsStability,
                                                      Val(ml_performance), None))]
    /\ UNCHANGED <<model, script, curated, pc, local, market, registry>>

SpecRepeat == InitRepeat /\ [][RepeatPredict]_vars

\* ------------------------------------------------------------ marketplace
\* Quantities are doubles (DoubleOfTenths of a number of tenths), prices whole
\* rupees.  A call that raises changes nothing and is no step.  Time stamps
\* and the advance amount of a payment order are left out of the records.
MaxParents == 1
MaxRequests == 3
MaxOrders == 2
Producers == {"alice", "bob"}
TotalTenths == {6, 10}
QuantityTenths == {1, 2, 3}
BidPrices == {100, 120}

InitMarket ==
    /\ model = Model1
    /\ file = AbsentFile
    /\ outcome = NoOutcome
    /\ script = 0
    /\ ncalls = 0
    /\ curated = FALSE
    /\ pc = [t \in Handlers |-> "idle"]
    /\ local = [t \in Handlers |-> NoLocal]
    /\ probe = NoProbe
    /\ market \in { [NoMarket EXCEPT !.client = c] : c \in BOOLEAN }
    /\ registry = NoRegistry

\* MarketplaceService.create_parent
CreateParent(producer, base_price, total_quantity) ==
    /\ Len(market.parents) < MaxParents
    /\ base_price > 0
    /\ BigLess(BigOfSmall(0), total_quantity)
    /\ market' = [market EXCEPT !.parents = Append(@,
                      [producer |-> producer, basePrice |-> base_price,
                       totalQuantity |-> total_quantity,
                       availableQuantity |-> total_quantity,
                       status |-> "draft"])]
    /\ UNCHANGED <<model, file, outcome, script, ncalls, curated, pc, local, probe, registry>>

\* MarketplaceService.publish_parent
PublishParent(parent_id, producer) ==
    /\ parent_id \in 1..Len(market.parents)
    /\ market.parents[parent_id].producer = producer
    /\ market.parents[parent_id].status # "published"
    /\ market' = [market EXCEPT !.parents[parent_id].status = "published"]
    /\ UNCHANGED <<model, file, outcome, script, ncalls, curated, pc, local, probe, registry>>

\* MarketplaceService.create_request
CreateRequest(parent_id, retailer, quantity, bid_price) ==
    /\ Len(market.requests) < MaxRequests
    /\ BigLess(BigOfSmall(0), quantity)
    /\ bid_price > 0
    /\ parent_id \in 1..Len(market.parents)
    /\ LET parent == market.parents[parent_id]
           available == parent.availableQuantity
           left == DoubleSub(available, quantity)
       IN  /\ parent.status = "published"
           /\ ~BigLess(available, quantity)
           /\ bid_price >= parent.basePrice
           /\ market' = [market EXCEPT
                  !.parents[parent_id].availableQuantity = left,
                  !.requests = Append(@,
                      [parentId |-> parent_id, producer |-> parent.producer,
                       retailer |-> retailer, quantity |-> quantity,
                       bidPrice |-> bid_price, status |-> "pending_approval",
                       payment |-> None])]
    /\ UNCHANGED <<model, file, outcome, script, ncalls, curated, pc, local, probe, registry>>

\* MarketplaceService.approve_request
ApproveRequest(request_id, producer) ==
    /\ request_id \in 1..Len(market.requests)
    /\ market.requests[request_id].producer = producer
    /\ market.requests[request_id].status = "pending_approval"
    /\ market' = [market EXCEPT !.requests[request_id].status = "approved"]
    /\ UNCHANGED <<model, file, outcome, script, ncalls, curated, pc, local, probe, registry>>

\* MarketplaceService.reject_request: the quantity goes back to the parent
RejectRequest(request_id, producer) ==
    /\ request_id \in 1..Len(market.requests)
    /\ LET request == market.requests[request_id]
       IN  /\ request.producer = producer
           /\ request.status = "pending_approval"
           /\ market' = [market EXCEPT
                  !.parents[request.parentId].availableQuantity =
                      DoubleAdd(@, request.quantity),
                  !.requests[request_id].status = "rejected"]
    /\ UNCHANGED <<model, file, outcome, script, ncalls, curated, pc, local, probe, registry>>

\* MarketplaceService.create_payment_order: raises RuntimeError without a
\* configured client; every call creates a new order
CreatePaymentOrder(request_id) ==
    /\ Len(market.payments) < MaxOrders
    /\ request_id \in 1..Len(market.requests)
    /\ market.requests[request_id].status \in {"approved", "awaiting_payment"}
    /\ market.requests[request_id].parentId \in 1..Len(market.parents)
    /\ market.client
    /\ market' = [market EXCEPT
           !.payments = Append(@, [requestId |-> request_id, status |-> "created"]),
           !.requests[request_id].status = "awaiting_payment",
           !.requests[request_id].payment = Some(Len(market.payments) + 1)]
    /\ UNCHANGED <<model, file, outcome, script, ncalls, curated, pc, local, probe, registry>>

\* MarketplaceService.confirm_payment: the status of the request is not read
ConfirmPayment(request_id, order_id) ==
    /\ request_id \in 1..Len(market.requests)
    /\ order_id \in 1..Len(market.payments)
    /\ market.payments[order_id].requestId = request_id
    /\ market' = [market EXCEPT
           !.payments[order_id].status = "paid",
           !.requests[request_id].status = "paid",
           !.requests[request_id].payment = Some(order_id)]
    /\ UNCHANGED <<model, file, outcome, script, ncalls, curated, pc, local, probe, registry>>

\* MarketplaceService.mark_fulfilled
MarkFulfilled(request_id) ==
    /\ request_id \in 1..Len(market.requests)
    /\ market.requests[request_id].status = "paid"
    /\ market' = [market EXCEPT !.requests[request_id].status = "fulfilled"]
    /\ UNCHANGED <<model, file, outcome, script, ncalls, curated, pc, local, probe, registry>>

NextMarket ==
    \/ \E producer \in Producers, t \in TotalTenths :
          CreateParent(producer, 100, DoubleOfTenths(t))
    \/ \E parent_id \in 1..MaxParents, producer \in Producers :
          PublishParent(parent_id, producer)
    \/ \E parent_id \in 1..MaxParents, q \in QuantityTenths, bid \in BidPrices :
          CreateRequest(parent_id, "rita", DoubleOfTenths(q), bid)
    \/ \E request_id \in 1..MaxRequests, producer \in Producers :
          ApproveRequest(request_id, producer)
    \/ \E request_id \in 1..MaxRequests, producer \in Producers :
          RejectRequest(request_id, producer)
    \/ \E request_id \in 1..MaxRequests : CreatePaymentOrder(request_id)
    \/ \E request_id \in 1..MaxRequests, order_id \in 1..MaxOrders :
          ConfirmPayment(request_id, order_id)
    \/ \E request_id \in 1..MaxRequests : MarkFulfilled(request_id)

SpecMarket == InitMarket /\ [][NextMarket]_vars

\* ------------------------------------------------------------ sensor registry
\* SensorRegistry.register_sensor: the payload stored under the sensor id
RegisterSensor(sensor_id, sensor_type, owner_username) ==
    /\ registry' = [registry EXCEPT !.sensors[sensor_id] =
                        Some([sensorType |-> sensor_type, owner |-> owner_username])]
    /\ UNCHANGED <<model, file, outcome, script, ncalls, curated, pc, local, probe, market>>

\* SensorRegistry.link_sensor: raises for an unregistered sensor; drops the
\* sensorLinks entry of another sensor bound to this batch and location type;
\* stores the binding in both indexes
LinkSensor(sensor_id, batch_id, location_type, linked_by) ==
    LET existing_binding == registry.batchLinks[batch_id][location_type]
        unlinked == IF ~IsNone(existing_binding)
                       /\ Val(existing_binding).sensorId # sensor_id
                    THEN [registry.sensorLinks EXCEPT
                             ![Val(existing_binding).sensorId] = None]
                    ELSE registry.sensorLinks
        binding == [sensorId |-> sensor_id, batchId |-> batch_id,
                    locationType |-> location_type, linkedBy |-> linked_by]
    IN  /\ ~IsNone(registry.sensors[sensor_id])
        /\ registry' = [registry EXCEPT
                            !.sensorLinks = [unlinked EXCEPT ![sensor_id] = Some(binding)],
                            !.batchLinks[batch_id][location_type] = Some(binding)]
        /\ UNCHANGED <<model, file, outcome, script, ncalls, curated, pc, local, probe, market>>

\* SensorRegistry.unlink_batch: nothing for a batch without links; else the
\* batch's binding for the location type is popped and, if there was one,
\* the sensorLinks entry of the sensor it names
UnlinkBatch(batch_id, location_type) ==
    LET batch_links == registry.batchLinks[batch_id]
        binding == batch_links[location_type]
    IN  /\ \E t \in LocationTypes : ~IsNone(batch_links[t])
        /\ registry' = [registry EXCEPT
                            !.batchLinks[batch_id][location_type] = None,
                            !.sensorLinks = IF IsNone(binding) THEN @
                                            ELSE [@ EXCEPT ![Val(binding).sensorId] = None]]
        /\ UNCHANGED <<model, file, outcome, script, ncalls, curated, pc, local, probe, market>>

NextRegistry ==
    \/ \E s \in SensorIds, t \in LocationTypes : RegisterSensor(s, t, "carol")
    \/ \E s \in SensorIds, b \in LinkedBatchIds, t \in LocationTypes :
          LinkSensor(s, b, t, "carol")
    \/ \E b \in LinkedBatchIds, t \in LocationTypes : UnlinkBatch(b, t)

\* a registry constructed on a fresh state path, beside a fresh predictor
SpecRegistry == Init /\ [][NextRegistry]_vars

\* ------------------------------------------------------------ kinetic model
\* _arrhenius_prediction called directly for a fruit of KINETIC_DATA, first at
\* the cooler and then at the warmer of two temperatures, at the optimal
\* humidity or in a dry room.  The temperatures are the whole degrees of
\* storage, the doubles 5 + j * 2^-50 a few units in the last place from the
\* reference (5.00000000000001 is 5 + 11 * 2^-50; up to 32 units either way
\* temp_c + 273.15 rounds to T_REF_K), and -273.15.
StorageDegrees == -20 .. 30
NearReferenceUlps == {-32, -1, 1, 11, 32}
KineticTemperatures ==
    {WideOfWhole(t) : t \in StorageDegrees}
    \cup {WideSum(WideOfWhole(T_REF_C), WideOfBinary(j, 50)) : j \in NearReferenceUlps}
    \cup {WideNeg(KELVIN_OFFSET)}

NotCalled == [ok |-> FALSE, error |-> "not called"]

InitKinetic ==
    /\ model = Model1
    /\ file = AbsentFile
    /\ outcome = NoOutcome
    /\ script = 0
    /\ ncalls = 0
    /\ curated = FALSE
    /\ pc = [t \in Handlers |-> "idle"]
    /\ local = [t \in Handlers |-> NoLocal]
    /\ market = NoMarket
    /\ registry = NoRegistry
    /\ \E fruit \in KINETIC_KEYS, humidity \in {OPTIMAL_RH, 60},
          cooler \in KineticTemperatures, warmer \in KineticTemperatures :
          /\ WideLess(cooler, warmer)
          /\ probe = [status |-> "asked", fruit |-> fruit, humidity |-> humidity,
                      cooler |-> cooler, warmer |-> warmer,
                      at_cooler |-> NotCalled, at_warmer |-> NotCalled]

\* the next of the two calls, returning or raising
KineticCall ==
    /\ probe.status \in {"asked", "first"}
    /\ probe' =
          IF probe.status = "asked"
          THEN [probe EXCEPT !.status = "first",
                   !.at_cooler = ArrheniusPrediction(probe.fruit, probe.cooler,
                                                     probe.humidity)]
          ELSE [probe EXCEPT !.status = "both",
                   !.at_warmer = ArrheniusPrediction(probe.fruit, probe.warmer,
                                                     probe.humidity)]
    /\ UNCHANGED <<model, file, outcome, script, ncalls, curated, pc, local,
                 market, registry>>

SpecKinetic == InitKinetic /\ [][KineticCall]_vars

\* ------------------------------------------------------------ alpha calibration
\* _calculate_alpha called directly on a pair of scores and then on a pair
\* with neither score lower, without an override or with one.  The scores
\* are doubles: 0, 1/8, 1/2, 3/4 and 1, each also one step of 2^-53 lower
\* and higher where that is a double from 0 to 1; the stability score may
\* exceed 1.
ScoreEighths == {0, 1, 4, 6, 8}
ScoreSteps == {-1, 0, 1}
ScoreLevels ==
    { x \in { WideSum(WideOfBinary(k, 3), WideOfBinary(j, 53)) :
                  k \in ScoreEighths, j \in ScoreSteps } :
          ~x.neg /\ ~WideLess(WideOfWhole(1), x) }

InitAlpha ==
    /\ model = Model1
    /\ file = AbsentFile
    /\ outcome = NoOutcome
    /\ script = 0
    /\ ncalls = 0
    /\ curated = FALSE
    /\ pc = [t \in Handlers |-> "idle"]
    /\ local = [t \in Handlers |-> NoLocal]
    /\ market = NoMarket
    /\ registry = NoRegistry
    /\ \E stability \in ScoreLevels \cup {WideOfWhole(2)}, performance \in ScoreLevels,
          stability_up \in ScoreLevels \cup {WideOfWhole(2)}, performance_up \in ScoreLevels,
          override \in {None, Some(WideOfRatio(30, 100))} :
          /\ ~WideLess(stability_up, stability)
          /\ ~WideLess(performance_up, performance)
          /\ probe = [status |-> "asked", override |-> override,
                      stability |-> stability, performance |-> performance,
                      stability_up |-> stability_up, performance_up |-> performance_up,
                      alpha |-> WideZero, alpha_up |-> WideZero]

\* the next of the two calls
AlphaCall ==
    /\ probe.status \in {"asked", "first"}
    /\ probe' =
          IF probe.status = "asked"
          THEN [probe EXCEPT !.status = "first",
                   !.alpha = CalculateAlphaDouble(probe.stability, probe.performance,
                                                  probe.override)]
          ELSE [probe EXCEPT !.status = "both",
                   !.alpha_up = CalculateAlphaDouble(probe.stability_up,
                                                     probe.performance_up,
                                                     probe.override)]
    /\ UNCHANGED <<model, file, outcome, script, ncalls, curated, pc, local,
                 market, registry>>

SpecAlpha == InitAlpha /\ [][AlphaCall]_vars

\* ------------------------------------------------------------ claims
Fruit(in) == StrLower(StrStrip(in.product_type))
Supported(in) == Fruit(in) \in KINETIC_KEYS
Called == outcome.status \in {"returned", "raised"}
Returned == outcome.status = "returned"
Raised == outcome.status = "raised"
UNSUPPORTED_PRODUCT == "ValueError: unsupported product type"
MISSING_METADATA == "ValueError: model is missing feature metadata"

\* C1: the stored history never holds more than 120 entries, and a successful
\* call stores the last 120 of (the history it found, then its new entry).
C1_HistoryWindow ==
    /\ file.kind = "json" => Len(file.data) <= HISTORY_LIMIT
    /\ Returned =>
          /\ outcome.after.kind = "json"
          /\ Len(outcome.after.data) <= HISTORY_LIMIT
          /\ outcome.after.data =
                LastN(Append(LoadHistory(outcome.before), Val(outcome.entry)),
                      HISTORY_LIMIT)

\* a call that found a full window: the oldest entry is gone, the second
\* oldest is now first, the new entry is last
C1_Witness ==
    /\ Returned
    /\ Len(LoadHistory(outcome.before)) = HISTORY_LIMIT
    /\ Len(outcome.after.data) = HISTORY_LIMIT
    /\ outcome.before.data[1] # outcome.before.data[2]
    /\ outcome.after.data[1] = outcome.before.data[2]
    /\ outcome.after.data[HISTORY_LIMIT] = Val(outcome.entry)

C3_InterruptedSaveKeepsHistory ==
    outcome.status = "interrupted" =>
        LoadHistory(file) \in {LoadHistory(outcome.before), outcome.after.data}

\* C4: a call that raises leaves the history file as it found it, and a call
\* changes the file only after both sub-predictions have succeeded.
C4_NoPartialWrite ==
    /\ Raised => outcome.after = outcome.before /\ IsNone(outcome.entry)
    /\ Called /\ outcome.after # outcome.before =>
          /\ Returned
          /\ outcome.calls = <<"model.predict", "arrhenius_rate_constant">>
          /\ MlPrediction(model, Fruit(outcome.input), outcome.input.temperature_c,
                          outcome.input.humidity_percent).ok
          /\ ArrheniusPrediction(Fruit(outcome.input),
                                 WideOfWhole(outcome.input.temperature_c),
                                 outcome.input.humidity_percent).ok

\* an unsupported product asked of a predictor with stored entries
C4_Witness ==
    /\ Raised
    /\ outcome.error = UNSUPPORTED_PRODUCT
    /\ outcome.before.kind = "json"
    /\ Len(outcome.before.data) > 0
    /\ file = outcome.before

C6_StorageFailureNeverRaises ==
    (Called /\ Supported(outcome.input) /\ model.has_feature_names) => Returned

\* C7: without an override alpha_used lies in [0.1, 0.8]; with an override
\* it is the override clamped to [0, 1].
C7_AlphaBounds ==
    Returned =>
        LET alpha == Val(outcome.result).alpha_used
            override == outcome.input.alpha_override
        IN  IF IsNone(override)
            THEN alpha >= ALPHA_MIN /\ alpha <= ALPHA_MAX /\ alpha > 0 /\ alpha < ALPHA
            ELSE alpha = Max(0, Min(ALPHA, Val(override)))

\* a call without override whose scores push the weight down to the lower
\* bound: swinging readings, a consistent history
C7_Witness ==
    /\ Returned
    /\ IsNone(outcome.input.alpha_override)
    /\ Val(outcome.result).alpha_used = ALPHA_MIN
    /\ Val(outcome.result).sensor_stability = 0
    /\ Val(outcome.result).ml_performance > (SCORE * 3) \div 4

\* C8: hybrid = alpha * arrhenius + (1 - alpha) * ml on the values returned,
\* and the history entry records the same four values.
C8_HybridBlend ==
    Returned =>
        LET r == Val(outcome.result)
            e == Val(outcome.entry)
        IN  /\ r.hybrid_prediction =
                  r.alpha_used * r.arrhenius_prediction
                  + (ALPHA - r.alpha_used) * r.ml_prediction
            /\ e.alpha_used = r.alpha_used
            /\ e.arrhenius_prediction = r.arrhenius_prediction
            /\ e.ml_prediction = r.ml_prediction
            /\ e.hybrid_prediction = r.hybrid_prediction

\* a blend of two different sub-predictions with a weight strictly inside (0, 1)
C8_Witness ==
    /\ Returned
    /\ Val(outcome.result).alpha_used \in 1..(ALPHA - 1)
    /\ Val(outcome.result).alpha_used # ALPHA \div 2
    /\ Val(outcome.result).arrhenius_prediction # Val(outcome.result).ml_prediction

\* C9: for a product without kinetic profile the unsupported-product error is
\* raised before any sub-model is invoked.
C9_NoSubModelForUnsupported ==
    (Called /\ ~Supported(outcome.input) /\ model.has_feature_names) =>
        /\ Raised
        /\ outcome.error = UNSUPPORTED_PRODUCT
        /\ outcome.calls = <<>>

\* C10: an unsupported product or a model without feature metadata makes the
\* call raise its error; no result is returned.
C10_HardErrors ==
    (Called /\ (~Supported(outcome.input) \/ ~model.has_feature_names)) =>
        /\ Raised
        /\ IsNone(outcome.result)
        /\ outcome.error = IF model.has_feature_names THEN UNSUPPORTED_PRODUCT
                           ELSE MISSING_METADATA

\* the unsupported product asked of a model that has its metadata
C10_Witness ==
    /\ Raised
    /\ model.has_feature_names
    /\ ~Supported(outcome.input)
    /\ outcome.error = UNSUPPORTED_PRODUCT

\* C11: the sensor stability score of a call lies in [0, 1], whatever the
\* window of readings.
C11_StabilityInUnitInterval ==
    Returned =>
        /\ Val(outcome.result).sensor_stability >= 0
        /\ Val(outcome.result).sensor_stability <= SCORE

\* C15: a call without override, without readings, on an empty history reports
\* sensor_stability 0.5 and ml_performance 0.5 and uses the base weight 0.35.
C15_DefaultAlpha ==
    (Returned /\ IsNone(outcome.input.alpha_override)
        /\ outcome.input.sensor_readings = <<>>
        /\ LoadHistory(outcome.before) = <<>>) =>
        /\ Val(outcome.result).sensor_stability = SCORE \div 2
        /\ Val(outcome.result).ml_performance = SCORE \div 2
        /\ Val(outcome.result).alpha_used = ALPHA_BASE
        /\ Val(outcome.result).alpha_used = (35 * ALPHA) \div 100

\* the first call of a fresh predictor, with the defaults
C15_Witness ==
    /\ Returned
    /\ outcome.before = AbsentFile
    /\ IsNone(outcome.input.alpha_override)
    /\ outcome.input.sensor_readings = <<>>
    /\ Val(outcome.result).sensor_samples = 0
    /\ Val(outcome.result).alpha_used = ALPHA_BASE

\* C18: the two sub-predictions and the blended prediction of a successful
\* call are non-negative.
C18_NonNegativePredictions ==
    Returned =>
        /\ Val(outcome.result).ml_prediction >= 0
        /\ Val(outcome.result).arrhenius_prediction >= 0
        /\ Val(outcome.result).hybrid_prediction >= 0

\* a history with the batch_id of every entry erased
WithoutBatchIds(history) ==
    [i \in 1..Len(history) |-> [history[i] EXCEPT !.batch_id = None]]

\* C19: the batch ids do not enter the computation: a call returns what the
\* same call returns when its batch id and every batch id in the stored
\* history are erased, and the two histories left differ in batch ids only.
C19_BatchIdUnused ==
    Returned =>
        LET shadow == PredictOutcome(
                          JsonFile(WithoutBatchIds(LoadHistory(outcome.before))),
                          model, [outcome.input EXCEPT !.batch_id = None])
        IN  /\ shadow.status = "returned"
            /\ shadow.result = outcome.result
            /\ shadow.after.data = WithoutBatchIds(outcome.after.data)

\* a call with a batch id on a history holding entries with and without batch
\* id, whose track record moved the weight off the default
C19_Witness ==
    /\ Returned
    /\ ~IsNone(outcome.input.batch_id)
    /\ \E i, j \in 1..Len(LoadHistory(outcome.before)) :
          /\ IsNone(outcome.before.data[i].batch_id)
          /\ ~IsNone(outcome.before.data[j].batch_id)
          /\ outcome.before.data[j].batch_id # outcome.input.batch_id
    /\ Val(outcome.result).ml_performance # SCORE \div 2

\* C12: the ML performance score of a call lies in [0, 1], and it is 0.5 on an
\* empty history.
C12_MlPerformanceInUnitInterval ==
    Returned =>
        /\ Val(outcome.result).ml_performance >= 0
        /\ Val(outcome.result).ml_performance <= SCORE
        /\ LoadHistory(outcome.before) = <<>> =>
              Val(outcome.result).ml_performance = SCORE \div 2

\* a history whose regressor predictions have a negative mean: 1 - cv is above
\* 1 before the clamp
C12_Witness ==
    /\ Returned
    /\ Len(LoadHistory(outcome.before)) = 2
    /\ \A i \in 1..2 : outcome.before.data[i].ml_prediction < 0
    /\ outcome.before.data[1].ml_prediction # outcome.before.data[2].ml_prediction
    /\ Val(outcome.result).ml_performance = SCORE

\* the mean of a non-empty sequence of scores
MeanScore(scores) == SumSeq(scores) \div Len(scores)

\* C13: when entries carry an actual shelf life, the ML performance score is
\* the mean of max(0, 1 - |actual - predicted| / actual) over the 20 most
\* recent of them (predicted read as the blended or as the regressor
\* prediction of the entry).
C13_ValidatedAccuracy ==
    LET history == LoadHistory(outcome.before)
        validated == SelectSeq(history, LAMBDA h : ~IsNone(h.actual_shelf_life))
        recent == LastN(validated, 20)
        by_hybrid == [i \in 1..Len(recent) |->
                         AccuracyScore(Val(recent[i].actual_shelf_life),
                                       recent[i].hybrid_prediction)]
        by_regressor == [i \in 1..Len(recent) |->
                            AccuracyScore(Val(recent[i].actual_shelf_life),
                                          ALPHA * recent[i].ml_prediction)]
    IN  (/\ Returned
         /\ validated # <<>>
         /\ \A i \in 1..Len(validated) : Val(validated[i].actual_shelf_life) > 0) =>
            Val(outcome.result).ml_performance
                \in {MeanScore(by_hybrid), MeanScore(by_regressor)}

\* Clamp01(x): x in 1/SCORE clamped to [0, 1]
Clamp01(x) == Max(0, Min(SCORE, x))

\* C14: when no entry carries an actual shelf life, the ML performance score
\* is 1 - cv of the regressor predictions of the 10 most recent entries,
\* clamped to [0, 1], and 0.5 when there are fewer than two.
C14_ConsistencyFallback ==
    LET history == LoadHistory(outcome.before)
        recent == LastN(history, 10)
        preds == [i \in 1..Len(recent) |-> recent[i].ml_prediction]
    IN  (/\ Returned
         /\ \A i \in 1..Len(history) : IsNone(history[i].actual_shelf_life)) =>
            Val(outcome.result).ml_performance =
                IF Len(preds) < 2 THEN SCORE \div 2
                ELSE Clamp01(SCORE - CoefficientOfVariation(preds))

\* twelve entries never annotated: the two oldest wild, the ten newest equal
C14_Witness ==
    /\ Returned
    /\ Len(LoadHistory(outcome.before)) = 12
    /\ \A i \in 1..12 : IsNone(outcome.before.data[i].actual_shelf_life)
    /\ outcome.before.data[1].ml_prediction # outcome.before.data[2].ml_prediction
    /\ \A i \in 3..12 : outcome.before.data[i].ml_prediction
                            = outcome.before.data[12].ml_prediction
    /\ Val(outcome.result).ml_performance = SCORE

\* C16: the sensor stability score is 0.5 for no readings and 0.6 for exactly
\* one reading, whatever the reading and the fallback values.
C16_DegenerateWindows ==
    Returned =>
        /\ Len(outcome.input.sensor_readings) = 0 =>
              Val(outcome.result).sensor_stability = (5 * SCORE) \div 10
        /\ Len(outcome.input.sensor_readings) = 1 =>
              Val(outcome.result).sensor_stability = (6 * SCORE) \div 10

\* one reading far from the fallback values of the call
C16_Witness ==
    /\ Returned
    /\ Len(outcome.input.sensor_readings) = 1
    /\ ~IsNone(outcome.input.sensor_readings[1].temperature)
    /\ Val(outcome.input.sensor_readings[1].temperature) < 0
    /\ outcome.input.temperature_c = 25
    /\ Val(outcome.result).sensor_stability = (6 * SCORE) \div 10

\* C17: on a window of two or more identical readings the sensor stability
\* score is exactly 1.0.
C17_IdenticalReadingsScoreOne ==
    probe.status = "returned" => probe.score_is_one

\* C21: a successful call changes the store only by appending its entry at the
\* end and dropping the oldest entries beyond the window: every stored entry
\* that is retained keeps its content, annotation included, and its order.
C21_AppendOnly ==
    Returned =>
        LET old == LoadHistory(outcome.before)
            new == outcome.after.data
            kept == Len(new) - 1
            dropped == Len(old) - kept
        IN  /\ outcome.after.kind = "json"
            /\ Len(new) >= 1
            /\ new[Len(new)] = Val(outcome.entry)
            /\ dropped = Max(0, Len(old) + 1 - HISTORY_LIMIT)
            /\ \A i \in 1..kept : new[i] = old[dropped + i]

\* a call on a full, annotated history: one entry is dropped and the
\* annotated entries kept are found one place earlier
C21_Witness ==
    /\ Returned
    /\ Len(LoadHistory(outcome.before)) = HISTORY_LIMIT
    /\ \E i \in 2..HISTORY_LIMIT :
          /\ ~IsNone(outcome.before.data[i].actual_shelf_life)
          /\ outcome.after.data[i - 1] = outcome.before.data[i]
    /\ \E i \in 2..HISTORY_LIMIT :
          outcome.before.data[i] # outcome.before.data[i - 1]

\* C22: at the reference temperature 5 C and the optimal humidity 90 % the
\* kinetic prediction of apple, banana, tomato, mango and potato is the
\* reference shelf life: 60, 14, 14, 12 and 90 days.
C22_ReferenceShelfLife ==
    LET days == CASE probe.fruit = APPLE  -> 60
                  [] probe.fruit = BANANA -> 14
                  [] probe.fruit = TOMATO -> 14
                  [] probe.fruit = MANGO  -> 12
                  [] probe.fruit = POTATO -> 90
    IN  /\ (probe.status \in {"first", "both"} /\ probe.humidity = OPTIMAL_RH
                /\ probe.cooler = WideOfWhole(T_REF_C))
               => probe.at_cooler = [ok |-> TRUE, value |-> days * CD]
        /\ (probe.status = "both" /\ probe.humidity = OPTIMAL_RH
                /\ probe.warmer = WideOfWhole(T_REF_C))
               => probe.at_warmer = [ok |-> TRUE, value |-> days * CD]

\* the potato asked at 5 C and 90 %: 90 days
C22_Witness ==
    /\ probe.status = "first"
    /\ probe.fruit = POTATO
    /\ probe.humidity = OPTIMAL_RH
    /\ probe.cooler = WideOfWhole(T_REF_C)
    /\ probe.at_cooler = [ok |-> TRUE, value |-> 90 * CD]

\* one call of the pair against the reference shelf life: below it above
\* 5 C and above it below 5 C
StrictlyAroundReference(temp_c, prediction, reference) ==
    /\ prediction.ok
    /\ WideLess(WideOfWhole(T_REF_C), temp_c) => prediction.value < reference
    /\ WideLess(temp_c, WideOfWhole(T_REF_C)) => prediction.value > reference

\* one call of the pair at a temperature that is no whole degree: the
\* reference shelf life itself where temp_c + 273.15 is T_REF_K, and
\* ZeroDivisionError at -273.15
OffWholeDegrees(temp_c, prediction, reference) ==
    /\ ToKelvin(temp_c) = T_REF_K
           => prediction = [ok |-> TRUE, value |-> reference]
    /\ temp_c = WideNeg(KELVIN_OFFSET)
           => prediction = [ok |-> FALSE,
                            error |-> "ZeroDivisionError: float division by zero"]

RaisedAlike ==
    WideSum(probe.stability_up, WideNeg(probe.stability))
        = WideSum(probe.performance_up, WideNeg(probe.performance))

RegressorAlone(history) ==
    [i \in 1..Len(history) |->
        [history[i] EXCEPT !.arrhenius_prediction = history[i].ml_prediction,
                           !.alpha_used = 0,
                           !.hybrid_prediction = ALPHA * history[i].ml_prediction]]

\* C25: the ML performance score depends on the entries' regressor
\* predictions and annotations only: a history and the history that differs
\* from it in kinetic predictions, blend weights and blended predictions
\* only yield the same score.
C25_RegressorTrackRecord ==
    Returned =>
        Val(outcome.result).ml_performance
            = AssessMlPerformance(RegressorAlone(LoadHistory(outcome.before)))

\* C26: with a history file holding well-formed JSON that is no list of
\* entry records, a call for a supported product returns.
C26_ForeignJsonIsEmptyHistory ==
    (Called /\ outcome.before \in ForeignFiles
        /\ Supported(outcome.input) /\ model.has_feature_names) => Returned

C30_LinkIndexesAgree ==
    /\ \A s \in SensorIds :
          ~IsNone(registry.sensorLinks[s]) =>
              LET binding == Val(registry.sensorLinks[s])
              IN  registry.batchLinks[binding.batchId][binding.locationType]
                      = Some(binding)
    /\ \A b \in LinkedBatchIds, t \in LocationTypes :
          ~IsNone(registry.batchLinks[b][t]) =>
              LET binding == Val(registry.batchLinks[b][t])
              IN  /\ binding.batchId = b
                  /\ binding.locationType = t
                  /\ registry.sensorLinks[binding.sensorId] = Some(binding)

\* sum(q for the first i requests if of this parent and not rejected), as
\* Python evaluates it on doubles
RECURSIVE HeldQuantity(_, _)
HeldQuantity(parent_id, i) ==
    IF i = 0 THEN BigOfSmall(0)
    ELSE LET request == market.requests[i]
             before == HeldQuantity(parent_id, i - 1)
         IN  IF request.parentId = parent_id /\ request.status # "rejected"
             THEN DoubleAdd(before, request.quantity)
             ELSE before

\* C28: for every parent offer, 0 <= availableQuantity <= totalQuantity, and
\* availableQuantity plus the quantities of its requests that are not
\* rejected equals totalQuantity (the sum evaluated on doubles, as the
\* program would evaluate it).
C28_QuantityConserved ==
    \A parent_id \in 1..Len(market.parents) :
        LET parent == market.parents[parent_id]
            held == HeldQuantity(parent_id, Len(market.requests))
        IN  /\ ~BigLess(parent.totalQuantity, parent.availableQuantity)
            /\ DoubleAdd(parent.availableQuantity, held) = parent.totalQuantity

\* the place of a status on the way pending_approval, approved,
\* awaiting_payment, paid, fulfilled
StatusRank(status) ==
    CASE status = "pending_approval" -> 0
      [] status = "approved" -> 1
      [] status = "awaiting_payment" -> 2
      [] status = "paid" -> 3
      [] status = "fulfilled" -> 4
      [] status = "rejected" -> 5

\* C29: a request's status only moves forward along pending_approval,
\* approved, awaiting_payment, paid, fulfilled, or from pending_approval to
\* rejected; a fulfilled or rejected request keeps its status.
C29_StatusForwardOnly ==
    [][\A i \in 1..Len(market.requests) :
          LET old == market.requests[i].status
              new == market'.requests[i].status
          IN  \/ new = old
              \/ old = "pending_approval" /\ new = "rejected"
              \/ /\ old \notin {"fulfilled", "rejected"}
                 /\ new # "rejected"
                 /\ StatusRank(new) > StatusRank(old)]_vars
====
